---------------------------- MODULE Spec2Model ----------------------------
(***************************************************************************)
(* A model of the comet synthesizer: the constraint algebra                *)
(* (src/comet/constraints.rs) and the branching synthesis engine          *)
(* (src/comet/synthesis.rs).                                               *)
(*                                                                         *)
(* Specifications sharing the module:                                      *)
(*   SpecAlg  draws constraint trees and chains and applies expand and     *)
(*            matches_chain to them;                                       *)
(*   Spec     draws a symbol table and a flow and runs synthesize on it,   *)
(*            one loop iteration per step.                                 *)
(***************************************************************************)
EXTENDS Integers, Sequences, FiniteSets, TLC

VARIABLES
    \* ---- constraint algebra (SpecAlg) ----
    law,            \* which operation sequence is applied to the inputs
    cA, cB, cC,     \* the input Constraint trees
    chain,          \* the input chain (Vec<Atom>) of matches_chain
    applied,        \* TRUE once the operations have been applied
    outL, outR,     \* ConstraintSets returned by expand
    outM,           \* bool returned by matches_chain / check_args_match
    inRequired,     \* the `required` parameters of check_args_match
    inProvided,     \* the `provided` arguments of check_args_match
    chain2,         \* a second input chain of matches_chain
    outM2,          \* bool returned by matches_chain on chain2
    \* ---- synthesis (Spec) ----
    functions,      \* symbol_table.functions: names in HashMap iteration order
    flow_name,      \* the argument of synthesize
    stmt_idx,       \* position of `for stmt in &flow.body`
    contexts,       \* the live list `contexts`
    ctx_idx,        \* position of `for context in contexts`
    next_contexts,  \* the list `next_contexts` being built
    last_out,       \* the `results` evaluate_expr returned to the last iteration
    status,         \* "idle" | "start" | "running" | "ok" | "err" | "overflow"
    error,          \* the SynthesisError returned, <<>> if none
    first_run,      \* the contexts an earlier run on the same table returned
    \* ---- semantic analysis (SpecSem) ----
    programs,       \* the parsed Program of every source file, by canonical path
    base_path,      \* the base_path argument of analyze
    symbol_table,   \* SemanticAnalyzer.symbol_table: a map per kind
    loaded_files,   \* SemanticAnalyzer.loaded_files
    call_stack,     \* the active process_program calls: [file, pc]
    processed,      \* how often process_program was entered, per file
    sem_status,     \* "idle" | "start" | "running" | "ok" | "err"
    sem_error       \* the SemanticError returned, <<>> if none

argVars == <<inRequired, inProvided, chain2, outM2>>
algVars == <<law, cA, cB, cC, chain, applied, outL, outR, outM, argVars>>
synVars == <<functions, flow_name, stmt_idx, contexts, ctx_idx, next_contexts,
             last_out, status, error, first_run>>
semVars == <<programs, base_path, symbol_table, loaded_files, call_stack,
             processed, sem_status, sem_error>>
vars == <<algVars, synVars, semVars>>

(***************************************************************************)
(* Bounds of the model.                                                    *)
(***************************************************************************)
\* longest child list of a generated Addition / Union
MaxArity == 2
\* longest generated input chain of matches_chain
MaxChainLen == 2

(***************************************************************************)
(* Names.  Rust compares Strings bytewise; NameOrder lists every name the  *)
(* model uses in that order ("'" < digits < upper case).                   *)
(***************************************************************************)
NameOrder == <<"'a", "21", "63", "Basket", "Constant", "DataFrame", "Even",
               "Ghost", "NonZero", "Odd", "Orphan", "Px", "Series", "Vol",
               "result">>

NameRank(n) == CHOOSE i \in 1..Len(NameOrder) : NameOrder[i] = n

\* name.starts_with("'")
StartsWithSigil(n) == n \in {"'a"}

(***************************************************************************)
(* ast::Constraint, as used by constraints.rs: Atom(name), Addition(list), *)
(* Union(list), Subtraction(lhs, rhs), None.                               *)
(***************************************************************************)
Atom(n)           == [op |-> "Atom",        name |-> n,  cs |-> <<>>]
Addition(list)    == [op |-> "Addition",    name |-> "", cs |-> list]
Union(list)       == [op |-> "Union",       name |-> "", cs |-> list]
Subtraction(l, r) == [op |-> "Subtraction", name |-> "", cs |-> <<l, r>>]
NoneC             == [op |-> "None",        name |-> "", cs |-> <<>>]

\* constraints::Atom
TypeAtom(n)     == [kind |-> "Type",     name |-> n]
VariableAtom(n) == [kind |-> "Variable", name |-> n]

\* Vec::contains
Contains(seq, x) == \E i \in 1..Len(seq) : seq[i] = x

\* the comparator handed to sort_by: Less
AtomLess(a, b) ==
    CASE a.kind = "Type"     /\ b.kind = "Type"     -> NameRank(a.name) < NameRank(b.name)
      [] a.kind = "Variable" /\ b.kind = "Variable" -> NameRank(a.name) < NameRank(b.name)
      [] a.kind = "Type"     /\ b.kind = "Variable" -> TRUE
      [] a.kind = "Variable" /\ b.kind = "Type"     -> FALSE

RECURSIVE InsertSorted(_, _)
InsertSorted(sorted, x) ==
    IF sorted = <<>> THEN <<x>>
    ELSE IF AtomLess(x, Head(sorted)) THEN <<x>> \o sorted
    ELSE <<Head(sorted)>> \o InsertSorted(Tail(sorted), x)


\* Vec::sort_by (stable) with the comparator above
RECURSIVE SortChain(_)
SortChain(seq) ==
    IF seq = <<>> THEN <<>>
    ELSE InsertSorted(SortChain(SubSeq(seq, 1, Len(seq) - 1)), seq[Len(seq)])

\* a push loop without the contains test
PushAll(combined, incoming) == combined \o incoming

\* the loop `for atom in incoming { if !combined.contains(atom) { push } }`
RECURSIVE PushMissing(_, _)
PushMissing(combined, incoming) ==
    IF incoming = <<>> THEN combined
    ELSE PushMissing(
            IF Contains(combined, Head(incoming)) THEN combined
            ELSE Append(combined, Head(incoming)),
            Tail(incoming))

\* a pairing that leaves the atoms in push order
CombineUnsorted(existing, incoming) == PushMissing(existing, incoming)

\* one `existing` x `incoming` pairing of the Addition fold
Combine(existing, incoming) == SortChain(PushMissing(existing, incoming))

\* a fold step that stops after the first incoming chain
AdditionStepFirstOnly(result, expanded_c) ==
    IF expanded_c = {} THEN {}
    ELSE LET incoming == CHOOSE x \in expanded_c : TRUE
         IN  {Combine(existing, incoming) : existing \in result}

\* one iteration of `for c in constraints` of the Addition arm
AdditionStep(result, expanded_c) ==
    {Combine(existing, incoming) : existing \in result, incoming \in expanded_c}

\* a matcher that wants the chain inside the requirement
AllFoundReversed(req_chain, ch) ==
    \A i \in 1..Len(ch) : Contains(req_chain, ch[i])

\* the inner loop of matches_chain: every req_atom is in chain
AllFound(req_chain, ch) ==
    \A i \in 1..Len(req_chain) : Contains(ch, req_chain[i])

\* the outer loop of matches_chain over the HashSet, returning at the first hit
RECURSIVE AnyRequirement(_, _)
AnyRequirement(expanded_constraint, ch) ==
    IF expanded_constraint = {} THEN FALSE
    ELSE LET req_chain == CHOOSE r \in expanded_constraint : TRUE
         IN  IF AllFound(req_chain, ch) THEN TRUE
             ELSE AnyRequirement(expanded_constraint \ {req_chain}, ch)

RECURSIVE expand(_)
RECURSIVE matches_chain(_, _)
RECURSIVE AdditionFold(_, _)
RECURSIVE UnionFold(_, _)

\* a Subtraction with the test inverted
SubtractKeepMatching(left_set, rhs) ==
    {ch \in left_set : matches_chain(ch, rhs)}

\* the loop of the Subtraction arm: keep the chains that do not match rhs
SubtractKeep(left_set, rhs) ==
    {ch \in left_set : ~matches_chain(ch, rhs)}

AdditionFold(list, result) ==
    IF list = <<>> THEN result
    ELSE AdditionFold(Tail(list), AdditionStep(result, expand(Head(list))))

UnionFold(list, result) ==
    IF list = <<>> THEN result
    ELSE UnionFold(Tail(list), result \cup expand(Head(list)))

expand(c) ==
    CASE c.op = "Atom" ->
            IF StartsWithSigil(c.name) THEN {<<VariableAtom(c.name)>>}
            ELSE {<<TypeAtom(c.name)>>}
      [] c.op = "Addition"    -> AdditionFold(c.cs, {<<>>})
      [] c.op = "Union"       -> UnionFold(c.cs, {})
      [] c.op = "Subtraction" -> SubtractKeep(expand(c.cs[1]), c.cs[2])
      [] c.op = "None"        -> {}

\* a match that asks for the chain to be a chain of the expansion
matches_chain_exact(ch, c) == ch \in expand(c)

matches_chain(ch, c) == AnyRequirement(expand(c), ch)

(***************************************************************************)
(* The symbol table.  Types, behaviors and flows are fixed; the functions  *)
(* of a run are a selection from FuncPool, held in `functions` in the      *)
(* order the HashMap iterates them.                                        *)
(***************************************************************************)
\* the most functions a drawn table holds
MaxFns == 3
\* the deepest nesting of synthesize calls the model follows before it
\* reports the stack exhausted
MaxFlowDepth == 3

Some(x) == <<x>>
NoneOpt == <<>>

\* ast::TypedArg
TypedArg(n, c) == [name |-> n, constraint |-> c]

\* symbols: TypeInfo (properties, parent_constraint)
Types ==
    [n \in {"Series", "NonZero", "DataFrame", "Vol", "Px", "Basket", "Even",
            "Odd", "Orphan"} |->
        CASE n = "Vol" -> [properties |-> <<"Series", "NonZero">>,
                           parent_constraint |-> NoneOpt,
                           components |-> NoneOpt]
          [] n = "Px"  -> [properties |-> <<>>,
                           parent_constraint |-> Some(Atom("Series")),
                           components |-> NoneOpt]
          [] n = "Basket" -> [properties |-> <<>>,
                              parent_constraint |-> NoneOpt,
                              components |-> Some(<<"Px", "Vol">>)]
          [] n = "Even" -> [properties |-> <<"Odd">>,
                            parent_constraint |-> NoneOpt,
                            components |-> NoneOpt]
          [] n = "Odd"  -> [properties |-> <<"NonZero">>,
                            parent_constraint |-> Some(Atom("Even")),
                            components |-> NoneOpt]
          [] n = "Orphan" -> [properties |-> <<>>,
                              parent_constraint |-> Some(Atom("Ghost")),
                              components |-> NoneOpt]
          [] OTHER     -> [properties |-> <<>>, parent_constraint |-> NoneOpt,
                           components |-> NoneOpt]]

SeriesNonZero == Addition(<<Atom("Series"), Atom("NonZero")>>)

\* symbols: BehaviorInfo (args, return_type)
Behaviors ==
    [n \in {"window", "op", "gen", "divide", "mix"} |->
        CASE n = "window" -> [args |-> <<>>,
                              return_type |-> Union(<<Atom("21"), Atom("63")>>)]
          [] n = "op"     -> [args |-> <<TypedArg("x", SeriesNonZero)>>,
                              return_type |-> Atom("Series")]
          [] n = "gen"    -> [args |-> <<>>, return_type |-> Atom("Series")]
          [] n = "mix"    -> [args |-> <<>>,
                              return_type |->
                                  Addition(<<Atom("Series"), Atom("63")>>)]
          [] n = "divide" -> [args |-> <<TypedArg("dividend", Atom("Series")),
                                         TypedArg("divisor", Atom("NonZero"))>>,
                              return_type |-> Atom("Series")]]

\* symbols: FuncInfo (params, return_type), by name
FuncPool ==
    [n \in {"ratio", "px", "frame", "toframe", "void", "mk", "mknz", "div",
            "op"} |->
        CASE n = "ratio"   -> [params |-> <<TypedArg("x", SeriesNonZero)>>,
                               return_type |-> Atom("Series")]
          [] n = "px"      -> [params |-> <<TypedArg("x", Atom("Series"))>>,
                               return_type |-> Atom("Px")]
          [] n = "frame"   -> [params |-> <<TypedArg("x", Atom("DataFrame"))>>,
                               return_type |-> Atom("Series")]
          [] n = "toframe" -> [params |-> <<TypedArg("x", Atom("Series"))>>,
                               return_type |-> Atom("DataFrame")]
          [] n = "void"    -> [params |-> <<TypedArg("x", Atom("Series"))>>,
                               return_type |->
                                   Subtraction(Atom("Series"), Atom("Series"))]
          [] n = "mk"      -> [params |-> <<>>, return_type |-> Atom("Series")]
          [] n = "op"      -> [params |-> <<TypedArg("x", Atom("Series"))>>,
                               return_type |-> Atom("DataFrame")]
          [] n = "mknz"    -> [params |-> <<>>, return_type |-> SeriesNonZero]
          [] n = "div"     -> [params |-> <<TypedArg("dividend", Atom("Series")),
                                            TypedArg("divisor", Atom("NonZero"))>>,
                               return_type |-> Atom("Series")]]

\* ast::Expr and ast::ArgValue
Call(n, args)      == [kind |-> "Call", name |-> n, args |-> args]
Identifier(n)      == [kind |-> "Identifier", name |-> n]
Literal(i)         == [kind |-> "Literal", value |-> i]
BinaryOp(l, o, r)  == [kind |-> "BinaryOp", left |-> l, op |-> o, right |-> r]
Positional(e)      == [name |-> NoneOpt, value |-> e]

\* ast::FlowStmt
Assignment(t, e) == [kind |-> "Assignment", target |-> t, expr |-> e]
Return(e)        == [kind |-> "Return", target |-> "", expr |-> e]

\* symbols: FlowInfo.body, by name
Flows ==
    [n \in {"trivial", "filter", "triple", "chain", "nested", "variants",
            "quotient", "sub", "useflow", "badflow", "usebad", "unknown",
            "loop", "ping", "pong", "basket", "mixed", "voidarg", "viaident",
            "retcall"} |->
        CASE n = "trivial"  -> <<Assignment("result", Identifier("Px"))>>
          [] n = "filter"   -> <<Assignment("v", Identifier("Vol")),
                                 Assignment("result",
                                     Call("op", <<Positional(Identifier("v"))>>))>>
          [] n = "triple"   -> <<Assignment("a", Call("gen", <<>>)),
                                 Assignment("b", Call("gen", <<>>)),
                                 Assignment("result", Call("gen", <<>>))>>
          [] n = "chain"    -> <<Assignment("a", Call("gen", <<>>)),
                                 Assignment("result",
                                     Call("op", <<Positional(Identifier("a"))>>))>>
          [] n = "nested"   -> <<Assignment("result",
                                     Call("op", <<Positional(Call("gen", <<>>))>>))>>
          [] n = "variants" -> <<Assignment("w", Call("window", <<>>)),
                                 Assignment("result", Literal(5)),
                                 Return(Identifier("w"))>>
          [] n = "quotient" -> <<Assignment("v", Identifier("Vol")),
                                 Assignment("result",
                                     BinaryOp(Identifier("v"), "Div",
                                              Identifier("v")))>>
          [] n = "sub"      -> <<Assignment("result", Call("gen", <<>>))>>
          [] n = "useflow"  -> <<Assignment("x", Call("sub", <<>>)),
                                 Assignment("result",
                                     Call("op", <<Positional(Identifier("x"))>>))>>
          [] n = "badflow"  -> <<Assignment("result", Call("missing", <<>>))>>
          [] n = "usebad"   -> <<Assignment("result", Call("badflow", <<>>))>>
          [] n = "unknown"  -> <<Assignment("result", Identifier("Nope"))>>
          [] n = "loop"     -> <<Assignment("result", Call("loop", <<>>))>>
          [] n = "ping"     -> <<Assignment("result", Identifier("pong"))>>
          [] n = "pong"     -> <<Assignment("result", Call("ping", <<>>))>>
          [] n = "basket"   -> <<Assignment("result", Identifier("Basket"))>>
          [] n = "mixed"    -> <<Assignment("result", Call("mix", <<>>))>>
          [] n = "voidarg"  -> <<Assignment("v", Identifier("Vol")),
                                 Assignment("e",
                                     Call("void", <<Positional(Identifier("v"))>>)),
                                 Assignment("result",
                                     Call("op", <<Positional(Identifier("e"))>>))>>
          [] n = "viaident" -> <<Assignment("result", Identifier("sub"))>>
          [] n = "retcall"  -> <<Assignment("result", Literal(5)),
                                 Return(Call("gen", <<>>))>>]

\* symbol_table.functions.get(name)
HasFunction(n) == Contains(functions, n)

(***************************************************************************)
(* ir.rs: the execution graph.                                             *)
(***************************************************************************)
SourceNode(label, type_name) ==
    [kind |-> "Source", label |-> label, type_name |-> type_name, args |-> <<>>]
ConstantNode(value, type_name) ==
    [kind |-> "Constant", label |-> <<value>>, type_name |-> type_name,
     args |-> <<>>]
OperationNode(op, args) ==
    [kind |-> "Operation", label |-> op, type_name |-> "", args |-> args]
FunctionCall(n) == <<"FunctionCall", n>>

\* an add_node that returns the length after the push
add_node_len(ctx, node) ==
    LET nodes == Append(ctx.graph, node)
    IN  [ctx |-> [ctx EXCEPT !.graph = nodes], id |-> Len(nodes)]

\* Context::add_node / ExecutionGraph::add_node: push, return len - 1
add_node(ctx, node) ==
    LET nodes == Append(ctx.graph, node)
    IN  [ctx |-> [ctx EXCEPT !.graph = nodes], id |-> Len(nodes) - 1]

\* Context::new
ContextNew == [variables |-> <<>>, graph |-> <<>>]

VariableState(cset, id) == [constraint_set |-> cset, node_id |-> id]

\* HashMap::insert
MapInsert(m, k, v) ==
    [x \in (DOMAIN m) \cup {k} |-> IF x = k THEN v ELSE m[x]]

\* HashMap::remove
MapRemove(m, k) == [x \in (DOMAIN m) \ {k} |-> m[x]]

\* Result<_, SynthesisError>
Ok(v)  == [err |-> <<>>, val |-> v]
Err(e) == [err |-> e, val |-> <<>>]

NoImplFound(n)      == <<"NoImplFound", n>>
VariableNotFound(n) == <<"VariableNotFound", n>>
FlowNotFound(n)     == <<"FlowNotFound", n>>
ConstraintFailed(n) == <<"ConstraintFailed", n>>
SynthesisFailed(n)  == <<"SynthesisError", n>>
\* not a SynthesisError: the process runs out of stack
StackOverflow       == <<"StackOverflow">>

(***************************************************************************)
(* synthesis.rs: check_args_match.                                         *)
(***************************************************************************)
ArgResult(id, cset, name) ==
    [node_id |-> id, constraint_set |-> cset, name |-> name]

\* `for p in provided`: the named arguments, a later one replacing an earlier
RECURSIVE NameMap(_, _)
NameMap(provided, m) ==
    IF provided = <<>> THEN m
    ELSE LET p == Head(provided)
         IN  NameMap(Tail(provided),
                     IF p.name # NoneOpt THEN MapInsert(m, p.name[1], p) ELSE m)

\* every argument taken as positional, named or not
PositionalsAll(provided) == provided

\* `for p in provided`: the unnamed arguments, in order
RECURSIVE Positionals(_)
Positionals(provided) ==
    IF provided = <<>> THEN <<>>
    ELSE IF Head(provided).name = NoneOpt
         THEN <<Head(provided)>> \o Positionals(Tail(provided))
         ELSE Positionals(Tail(provided))

\* `for req in required`: by name first, else the next positional
RECURSIVE BindArgs(_, _, _, _, _)
BindArgs(required, name_map, positionals, pos_idx, ordered) ==
    IF required = <<>>
    THEN [ok |-> TRUE, name_map |-> name_map, pos_idx |-> pos_idx,
          ordered |-> ordered]
    ELSE LET req == Head(required)
         IN  IF req.name \in DOMAIN name_map
             THEN BindArgs(Tail(required), MapRemove(name_map, req.name),
                           positionals, pos_idx,
                           Append(ordered, name_map[req.name]))
             ELSE IF pos_idx < Len(positionals)
             THEN BindArgs(Tail(required), name_map, positionals, pos_idx + 1,
                           Append(ordered, positionals[pos_idx + 1]))
             ELSE [ok |-> FALSE, name_map |-> name_map, pos_idx |-> pos_idx,
                   ordered |-> ordered]

\* a pair that also asks the argument for a chain
PairMatchesInhabited(req, prov) ==
    /\ prov.constraint_set # {}
    /\ \A ch \in prov.constraint_set : matches_chain(ch, req.constraint)

\* `for chain in &prov.constraint_set`: every chain matches the parameter
PairMatches(req, prov) ==
    \A ch \in prov.constraint_set : matches_chain(ch, req.constraint)

check_args_match(required, provided) ==
    IF Len(required) # Len(provided) THEN FALSE
    ELSE LET positionals == Positionals(provided)
             b == BindArgs(required, NameMap(provided, <<>>), positionals,
                           0, <<>>)
         IN  /\ b.ok
             /\ b.pos_idx = Len(positionals)
             /\ DOMAIN b.name_map = {}
             /\ \A i \in 1..Len(required) :
                    PairMatches(required[i], b.ordered[i])

(***************************************************************************)
(* synthesis.rs: fully_expand_chain and collect_variants.                  *)
(***************************************************************************)
\* `for atom in &chain`: the names of the Type atoms
RECURSIVE TypeNamesOf(_)
TypeNamesOf(ch) ==
    IF ch = <<>> THEN <<>>
    ELSE IF Head(ch).kind = "Type"
         THEN <<Head(ch).name>> \o TypeNamesOf(Tail(ch))
         ELSE TypeNamesOf(Tail(ch))

\* `for prop in &ty_info.properties`
RECURSIVE PushProperties(_, _, _)
PushProperties(props, full_chain, stack) ==
    IF props = <<>> THEN [chain |-> full_chain, stack |-> stack]
    ELSE LET atom == TypeAtom(Head(props))
         IN  IF ~Contains(full_chain, atom)
             THEN PushProperties(Tail(props), Append(full_chain, atom),
                                 Append(stack, Head(props)))
             ELSE PushProperties(Tail(props), full_chain, stack)

\* `for atom in p_chain`
RECURSIVE PushParentChain(_, _, _)
PushParentChain(p_chain, full_chain, stack) ==
    IF p_chain = <<>> THEN [chain |-> full_chain, stack |-> stack]
    ELSE LET atom == Head(p_chain)
         IN  IF ~Contains(full_chain, atom)
             THEN PushParentChain(Tail(p_chain), Append(full_chain, atom),
                                  IF atom.kind = "Type"
                                  THEN Append(stack, atom.name) ELSE stack)
             ELSE PushParentChain(Tail(p_chain), full_chain, stack)

\* `for p_chain in parent_chains` (a HashSet)
RECURSIVE PushParentChains(_, _, _)
PushParentChains(parent_chains, full_chain, stack) ==
    IF parent_chains = {} THEN [chain |-> full_chain, stack |-> stack]
    ELSE LET p_chain == CHOOSE c \in parent_chains : TRUE
             r == PushParentChain(p_chain, full_chain, stack)
         IN  PushParentChains(parent_chains \ {p_chain}, r.chain, r.stack)

\* `while let Some(ty_name) = stack.pop()`
RECURSIVE ExpandWalk(_, _, _)
ExpandWalk(full_chain, visited, stack) ==
    IF stack = <<>> THEN full_chain
    ELSE LET ty_name == stack[Len(stack)]
             rest == SubSeq(stack, 1, Len(stack) - 1)
         IN  IF ty_name \in visited THEN ExpandWalk(full_chain, visited, rest)
             ELSE IF ty_name \notin DOMAIN Types
             THEN ExpandWalk(full_chain, visited \cup {ty_name}, rest)
             ELSE LET ty_info == Types[ty_name]
                      p == PushProperties(ty_info.properties, full_chain, rest)
                      q == IF ty_info.parent_constraint = NoneOpt THEN p
                           ELSE PushParentChains(
                                    expand(ty_info.parent_constraint[1]),
                                    p.chain, p.stack)
                  IN  ExpandWalk(q.chain, visited \cup {ty_name}, q.stack)

\* a closure returned in push order
fully_expand_unsorted(ch) == ExpandWalk(ch, {}, TypeNamesOf(ch))

fully_expand_chain(ch) == SortChain(ExpandWalk(ch, {}, TypeNamesOf(ch)))

RECURSIVE collect_variants(_)
RECURSIVE CollectAll(_)
CollectAll(list) ==
    IF list = <<>> THEN <<>>
    ELSE collect_variants(Head(list)) \o CollectAll(Tail(list))

collect_variants(constraint) ==
    CASE constraint.op = "Atom" ->
            IF constraint.name \notin DOMAIN Types THEN <<constraint.name>>
            ELSE <<>>
      [] constraint.op = "Union"    -> CollectAll(constraint.cs)
      [] constraint.op = "Addition" -> CollectAll(constraint.cs)
      [] OTHER -> <<>>

(***************************************************************************)
(* synthesis.rs: evaluate_expr and synthesize.  `fuel` counts the nested   *)
(* synthesize frames still available.                                      *)
(***************************************************************************)
\* one element of the Vec<(Context, ConstraintSet, usize)> of evaluate_expr
Result(ctx, cset, id) == [ctx |-> ctx, set |-> cset, id |-> id]

\* argument ids taken one past the argument's node
ArgIdsShifted(arg_results) ==
    [i \in 1..Len(arg_results) |-> arg_results[i].node_id + 1]

\* arg_results.iter().map(|a| a.node_id).collect()
ArgIds(arg_results) ==
    [i \in 1..Len(arg_results) |-> arg_results[i].node_id]

\* the fully expanded chains of a function's return constraint
FullFnConstraints(fn_info) ==
    {fully_expand_chain(ch) : ch \in expand(fn_info.return_type)}

\* a return check that ignores the behavior's requirement
ReturnCompatibleAny(fn_info, beh_info) ==
    FullFnConstraints(fn_info) # {}

\* `compatible`: the set is not empty and every chain matches the behavior
ReturnCompatible(fn_info, beh_info) ==
    LET full_fn_constraints == FullFnConstraints(fn_info)
    IN  /\ full_fn_constraints # {}
        /\ \A f_chain \in full_fn_constraints :
               matches_chain(f_chain, beh_info.return_type)

\* A) `for (fn_name, fn_info) in &self.symbol_table.functions`; ctx is the
\* one mutable context of the state, cloned into each result after the push
RECURSIVE FunctionCandidates(_, _, _, _, _)
FunctionCandidates(fns, beh_info, arg_results, ctx, results) ==
    IF fns = <<>> THEN [ctx |-> ctx, results |-> results]
    ELSE LET fn_name == Head(fns)
             fn_info == FuncPool[fn_name]
         IN  IF /\ check_args_match(fn_info.params, arg_results)
                /\ ReturnCompatible(fn_info, beh_info)
             THEN LET n == add_node(ctx, OperationNode(FunctionCall(fn_name),
                                                       ArgIds(arg_results)))
                  IN  FunctionCandidates(Tail(fns), beh_info, arg_results, n.ctx,
                          Append(results,
                                 Result(n.ctx, FullFnConstraints(fn_info), n.id)))
             ELSE FunctionCandidates(Tail(fns), beh_info, arg_results, ctx,
                                     results)

\* the ConstraintSet of a variant: the chains of the return that hold it
VariantSet(variant, beh_info) ==
    LET set == {ch \in expand(beh_info.return_type) :
                    Contains(ch, TypeAtom(variant))}
    IN  IF set = {} THEN {<<TypeAtom(variant)>>} ELSE set

\* B) `for variant in variants`
RECURSIVE VariantCandidates(_, _, _, _)
VariantCandidates(variants, beh_info, ctx, results) ==
    IF variants = <<>> THEN [ctx |-> ctx, results |-> results]
    ELSE LET n == add_node(ctx, ConstantNode(Head(variants), "Constant"))
         IN  VariantCandidates(Tail(variants), beh_info, n.ctx,
                 Append(results,
                        Result(n.ctx, VariantSet(Head(variants), beh_info), n.id)))

\* 3. `for flow_ctx in flow_contexts`
RECURSIVE ImportFlow(_, _, _, _)
ImportFlow(func_name, flow_contexts, ctx, results) ==
    IF flow_contexts = <<>> THEN [ctx |-> ctx, results |-> results]
    ELSE LET flow_ctx == Head(flow_contexts)
         IN  IF "result" \in DOMAIN flow_ctx.variables
             THEN LET res_var == flow_ctx.variables["result"]
                      n == add_node(ctx,
                              SourceNode(<<"FlowResult", func_name,
                                           ToString(res_var.node_id)>>,
                                         "FlowReference"))
                  IN  ImportFlow(func_name, Tail(flow_contexts), n.ctx,
                          Append(results,
                                 Result(n.ctx, res_var.constraint_set, n.id)))
             ELSE ImportFlow(func_name, Tail(flow_contexts), ctx, results)

\* the function name a BinaryOp is rewritten to
OpFunction(op) ==
    CASE op = "Div" -> "divide"
      [] op = "Mul" -> "multiply"
      [] op = "Add" -> "add"
      [] op = "Sub" -> "subtract"
      [] OTHER      -> "unknown_op"

\* the chain of a type used as a universe: its atom, then its properties
UniverseChain(ident) ==
    <<TypeAtom(ident)>> \o
    [i \in 1..Len(Types[ident].properties) |->
        TypeAtom(Types[ident].properties[i])]

\* a binding loop that keeps only the first result
BindTargetFirst(results, target) ==
    IF results = <<>> THEN <<>>
    ELSE <<[results[1].ctx EXCEPT !.variables =
                MapInsert(@, target,
                          VariableState(results[1].set, results[1].id))]>>

\* `ctx.variables.insert(target, ..); next_contexts.push(ctx)` per result
BindTarget(results, target) ==
    [i \in 1..Len(results) |->
        [results[i].ctx EXCEPT !.variables =
            MapInsert(@, target,
                      VariableState(results[i].set, results[i].id))]]

RECURSIVE evaluate_expr(_, _, _)
RECURSIVE synthesize(_, _)
RECURSIVE ArgStep(_, _, _, _)
RECURSIVE ArgStates(_, _, _)
RECURSIVE DispatchAll(_, _, _, _, _)
RECURSIVE ContextLoop(_, _, _, _)
RECURSIVE StmtLoop(_, _, _, _)

\* `for (new_ctx, c_set, id) in res`: the states one evaluation adds
ThreadArg(res, arg, prev_args) ==
    [i \in 1..Len(res) |->
        [ctx |-> res[i].ctx,
         args |-> Append(prev_args,
                         ArgResult(res[i].id, res[i].set, arg.name))]]

\* `let res = self.evaluate_expr(&arg.value, ctx)?;` and what follows it
ArgStepOn(res, arg, current_states, next_states, fuel) ==
    IF res.err # <<>> THEN Err(res.err)
    ELSE ArgStep(arg, Tail(current_states),
                 next_states \o ThreadArg(res.val, arg, Head(current_states).args),
                 fuel)

\* `for (ctx, prev_args) in current_states` for one argument
ArgStep(arg, current_states, next_states, fuel) ==
    IF current_states = <<>> THEN Ok(next_states)
    ELSE ArgStepOn(evaluate_expr(arg.value, Head(current_states).ctx, fuel),
                   arg, current_states, next_states, fuel)

\* `current_states = next_states` and the next argument
ArgStatesOn(step, args, fuel) ==
    IF step.err # <<>> THEN Err(step.err)
    ELSE ArgStates(Tail(args), step.val, fuel)

\* `for arg in args`
ArgStates(args, current_states, fuel) ==
    IF args = <<>> THEN Ok(current_states)
    ELSE ArgStatesOn(ArgStep(Head(args), current_states, <<>>, fuel), args, fuel)

\* the variants after the functions, on the same mutable ctx
VariantsAfter(a, beh_info) ==
    VariantCandidates(collect_variants(beh_info.return_type), beh_info,
                      a.ctx, a.results)

\* 1. the name is a behavior whose args match: functions, then variants
BehaviorStage(func_name, ctx, arg_results) ==
    IF /\ func_name \in DOMAIN Behaviors
       /\ check_args_match(Behaviors[func_name].args, arg_results)
    THEN [found |-> TRUE] @@
         VariantsAfter(FunctionCandidates(functions, Behaviors[func_name],
                                          arg_results, ctx, <<>>),
                       Behaviors[func_name])
    ELSE [found |-> FALSE, ctx |-> ctx, results |-> <<>>]

\* the push of the direct function's node
PushDirect(n, st, func_name) ==
    [found |-> TRUE, ctx |-> n.ctx,
     results |-> Append(st.results,
                    Result(n.ctx, expand(FuncPool[func_name].return_type), n.id))]

\* 2. `if !found`: a function of that name whose params match
FunctionStage(func_name, arg_results, st) ==
    IF /\ ~st.found
       /\ HasFunction(func_name)
       /\ check_args_match(FuncPool[func_name].params, arg_results)
    THEN PushDirect(add_node(st.ctx, OperationNode(FunctionCall(func_name),
                                                   ArgIds(arg_results))),
                    st, func_name)
    ELSE st

\* `let flow_contexts = self.synthesize(func_name)?;` and the import loop
FlowImported(flow_contexts, func_name, st) ==
    IF flow_contexts.err # <<>> THEN Err(flow_contexts.err)
    ELSE Ok(ImportFlow(func_name, flow_contexts.val, st.ctx, st.results).results)

\* 3. `if !found`: a flow of that name, called without arguments
FlowStage(func_name, no_args, st, fuel) ==
    IF ~st.found /\ func_name \in DOMAIN Flows /\ no_args
    THEN FlowImported(synthesize(func_name, fuel - 1), func_name, st)
    ELSE Ok(st.results)

\* the body of `for (mut ctx, arg_results) in current_states`: the results
\* one state pushes, or the error a referenced flow returns
DispatchState(func_name, no_args, ctx, arg_results, fuel) ==
    FlowStage(func_name, no_args,
              FunctionStage(func_name, arg_results,
                            BehaviorStage(func_name, ctx, arg_results)),
              fuel)

\* the results of one state are kept and the loop goes on
DispatchAllOn(d, func_name, no_args, current_states, results, fuel) ==
    IF d.err # <<>> THEN Err(d.err)
    ELSE DispatchAll(func_name, no_args, Tail(current_states),
                     results \o d.val, fuel)

\* `for (mut ctx, arg_results) in current_states`
DispatchAll(func_name, no_args, current_states, results, fuel) ==
    IF current_states = <<>> THEN Ok(results)
    ELSE DispatchAllOn(DispatchState(func_name, no_args,
                                     Head(current_states).ctx,
                                     Head(current_states).args, fuel),
                       func_name, no_args, current_states, results, fuel)

\* a call that treats several candidates as an error
CallResultsUnique(d, func_name) ==
    IF d.err # <<>> THEN Err(d.err)
    ELSE IF d.val = <<>> THEN Err(NoImplFound(func_name))
    ELSE IF Len(d.val) > 1 THEN Err(<<"AmbiguousImpl", func_name>>)
    ELSE Ok(d.val)

\* `if results.is_empty() { return Err(NoImplFound) } Ok(results)`
CallResults(d, func_name) ==
    IF d.err # <<>> THEN Err(d.err)
    ELSE IF d.val = <<>> THEN Err(NoImplFound(func_name))
    ELSE Ok(d.val)

\* the dispatch over the states the arguments left
CallOn(states, func_name, no_args, fuel) ==
    IF states.err # <<>> THEN Err(states.err)
    ELSE CallResults(DispatchAll(func_name, no_args, states.val, <<>>, fuel),
                     func_name)

\* Expr::Call
EvalCall(func_name, args, context, fuel) ==
    CallOn(ArgStates(args, <<[ctx |-> context, args |-> <<>>]>>, fuel),
           func_name, args = <<>>, fuel)

\* the FlowResult node of an identifier naming a flow
ImportFirst(n, final_ctx) ==
    Ok(<<Result(n.ctx, final_ctx.variables["result"].constraint_set, n.id)>>)

\* `flow_contexts.first()` and its "result" variable
FlowIdentifier(flow_contexts, ident, context) ==
    IF flow_contexts.err # <<>> THEN Err(flow_contexts.err)
    ELSE IF flow_contexts.val = <<>> THEN Err(SynthesisFailed(ident))
    ELSE IF "result" \notin DOMAIN flow_contexts.val[1].variables
    THEN Err(ConstraintFailed(ident))
    ELSE ImportFirst(add_node(context, SourceNode(<<"FlowResult", ident>>,
                                                  "FlowRefernce")),
                     flow_contexts.val[1])

\* the Universe source of an identifier naming a type
UniverseResult(n, ident) ==
    Ok(<<Result(n.ctx, {UniverseChain(ident)}, n.id)>>)

\* Expr::Identifier
EvalIdentifier(ident, context, fuel) ==
    IF ident \in DOMAIN context.variables
    THEN Ok(<<Result(context, context.variables[ident].constraint_set,
                     context.variables[ident].node_id)>>)
    ELSE IF ident \in DOMAIN Types
    THEN UniverseResult(add_node(context, SourceNode(<<"Universe", ident>>, ident)),
                        ident)
    ELSE IF ident \in DOMAIN Flows
    THEN FlowIdentifier(synthesize(ident, fuel - 1), ident, context)
    ELSE Err(VariableNotFound(ident))

\* a literal whose result forgets the bindings of the context
LiteralResultUnbound(n) ==
    Ok(<<Result([n.ctx EXCEPT !.variables = <<>>],
                {<<TypeAtom("Constant")>>}, n.id)>>)

\* the Constant result of a literal
LiteralResult(n) == Ok(<<Result(n.ctx, {<<TypeAtom("Constant")>>}, n.id)>>)

\* Expr::Literal
EvalLiteral(value, context) ==
    LiteralResult(add_node(context, ConstantNode(ToString(value), "Constant")))

evaluate_expr(expr, context, fuel) ==
    CASE expr.kind = "Call" -> EvalCall(expr.name, expr.args, context, fuel)
      [] expr.kind = "Identifier" -> EvalIdentifier(expr.name, context, fuel)
      [] expr.kind = "Literal" -> EvalLiteral(expr.value, context)
      [] expr.kind = "BinaryOp" ->
            EvalCall(OpFunction(expr.op),
                     <<Positional(expr.left), Positional(expr.right)>>,
                     context, fuel)
      [] OTHER -> Ok(<<>>)

\* Ok(results) => bind and push each; Err(e) => return Err(e)
AssignmentOn(res, target) ==
    IF res.err # <<>> THEN Err(res.err)
    ELSE Ok(BindTarget(res.val, target))

\* the match on one stmt for one context: the contexts it pushes
StmtOnContext(stmt, context, fuel) ==
    IF stmt.kind = "Assignment"
    THEN AssignmentOn(evaluate_expr(stmt.expr, context, fuel), stmt.target)
    ELSE Ok(<<context>>)

ContextLoopOn(r, stmt, contexts_, next, fuel) ==
    IF r.err # <<>> THEN Err(r.err)
    ELSE ContextLoop(stmt, Tail(contexts_), next \o r.val, fuel)

\* `for context in contexts`
ContextLoop(stmt, contexts_, next, fuel) ==
    IF contexts_ = <<>> THEN Ok(next)
    ELSE ContextLoopOn(StmtOnContext(stmt, Head(contexts_), fuel),
                       stmt, contexts_, next, fuel)

StmtLoopOn(r, body, i, fuel) ==
    IF r.err # <<>> THEN Err(r.err)
    ELSE StmtLoop(body, i + 1, r.val, fuel)

\* `for stmt in &flow.body`
StmtLoop(body, i, contexts_, fuel) ==
    IF i > Len(body) THEN Ok(contexts_)
    ELSE StmtLoopOn(ContextLoop(body[i], contexts_, <<>>, fuel), body, i, fuel)

\* synthesize, as called from an expression that references a flow
synthesize(name, fuel) ==
    IF fuel <= 0 THEN Err(StackOverflow)
    ELSE IF name \notin DOMAIN Flows THEN Err(FlowNotFound(name))
    ELSE StmtLoop(Flows[name], 1, <<ContextNew>>, fuel)

(***************************************************************************)
(* Spec: synthesize(flow_name) at the top level, one loop iteration per    *)
(* step.                                                                   *)
(***************************************************************************)
RECURSIVE Orders(_, _)
\* the sequences of at most n distinct names of S
Orders(S, n) ==
    IF n = 0 THEN {<<>>}
    ELSE {<<>>} \cup UNION {{<<x>> \o o : o \in Orders(S \ {x}, n - 1)} : x \in S}

AlgIdle ==
    /\ law = "none"
    /\ cA = NoneC /\ cB = NoneC /\ cC = NoneC
    /\ chain = <<>>
    /\ applied = FALSE
    /\ outL = {} /\ outR = {}
    /\ outM = FALSE
    /\ inRequired = <<>> /\ inProvided = <<>>
    /\ chain2 = <<>>
    /\ outM2 = FALSE

\* SymbolTable::new
SymbolTableNew ==
    [types |-> <<>>, behaviors |-> <<>>, functions |-> <<>>, flows |-> <<>>]

SemIdle ==
    /\ programs = <<>>
    /\ base_path = <<>>
    /\ symbol_table = SymbolTableNew
    /\ loaded_files = {}
    /\ call_stack = <<>>
    /\ processed = <<>>
    /\ sem_status = "idle"
    /\ sem_error = <<>>

NoRun == [done |-> FALSE, contexts |-> <<>>]

Init ==
    /\ first_run = NoRun
    /\ functions \in Orders(DOMAIN FuncPool, MaxFns)
    /\ flow_name \in (DOMAIN Flows) \cup {"absent"}
    /\ stmt_idx = 1
    /\ contexts = <<>>
    /\ ctx_idx = 1
    /\ next_contexts = <<>>
    /\ last_out = <<>>
    /\ status = "start"
    /\ error = <<>>
    /\ AlgIdle
    /\ SemIdle

Body == Flows[flow_name]
CurStmt == Body[stmt_idx]
CurContext == contexts[ctx_idx]
InContextLoop ==
    /\ status = "running"
    /\ stmt_idx <= Len(Body)
    /\ ctx_idx <= Len(contexts)

\* `for (mut ctx, c_set, node_id) in results`
AssignmentPushes(res) ==
    /\ res.err = <<>>
    /\ last_out' = res.val
    /\ next_contexts' = next_contexts \o BindTarget(res.val, CurStmt.target)

\* `Err(e) => return Err(e)`
AssignmentFails(res) ==
    /\ res.err # <<>>
    /\ res.err # StackOverflow
    /\ error' = res.err

\* flows.get(flow_name) finds the flow: contexts = vec![Context::new()]
LookupFlow ==
    /\ status = "start"
    /\ flow_name \in DOMAIN Flows
    /\ contexts' = <<ContextNew>>
    /\ status' = "running"
    /\ UNCHANGED <<functions, flow_name, stmt_idx, ctx_idx, next_contexts,
                   last_out, error, first_run, algVars, semVars>>

\* flows.get(flow_name) is None: Err(FlowNotFound)
LookupFails ==
    /\ status = "start"
    /\ flow_name \notin DOMAIN Flows
    /\ status' = "err"
    /\ error' = FlowNotFound(flow_name)
    /\ UNCHANGED <<functions, flow_name, stmt_idx, contexts, ctx_idx,
                   next_contexts, last_out, first_run, algVars, semVars>>

\* Assignment, Ok(results): bind the target in every result and push it
AssignmentOk ==
    /\ InContextLoop
    /\ CurStmt.kind = "Assignment"
    /\ AssignmentPushes(evaluate_expr(CurStmt.expr, CurContext, MaxFlowDepth))
    /\ ctx_idx' = ctx_idx + 1
    /\ UNCHANGED <<functions, flow_name, stmt_idx, contexts, status, error,
                   first_run, algVars, semVars>>

\* Assignment, Err(e) => return Err(e)
AssignmentErr ==
    /\ InContextLoop
    /\ CurStmt.kind = "Assignment"
    /\ AssignmentFails(evaluate_expr(CurStmt.expr, CurContext, MaxFlowDepth))
    /\ status' = "err"
    /\ UNCHANGED <<functions, flow_name, stmt_idx, contexts, ctx_idx,
                   next_contexts, last_out, first_run, algVars, semVars>>

\* Assignment whose evaluation recurses until the stack is exhausted
AssignmentOverflow ==
    /\ InContextLoop
    /\ CurStmt.kind = "Assignment"
    /\ evaluate_expr(CurStmt.expr, CurContext, MaxFlowDepth).err = StackOverflow
    /\ status' = "overflow"
    /\ UNCHANGED <<functions, flow_name, stmt_idx, contexts, ctx_idx,
                   next_contexts, last_out, error, first_run, algVars, semVars>>

\* FlowStmt::Return(_) => next_contexts.push(context)
ReturnStmt ==
    /\ InContextLoop
    /\ CurStmt.kind = "Return"
    /\ next_contexts' = Append(next_contexts, CurContext)
    /\ last_out' = <<>>
    /\ ctx_idx' = ctx_idx + 1
    /\ UNCHANGED <<functions, flow_name, stmt_idx, contexts, status, error,
                   first_run, algVars, semVars>>

\* the end of `for context in contexts`: contexts = next_contexts
NextStmt ==
    /\ status = "running"
    /\ stmt_idx <= Len(Body)
    /\ ctx_idx > Len(contexts)
    /\ contexts' = next_contexts
    /\ next_contexts' = <<>>
    /\ ctx_idx' = 1
    /\ stmt_idx' = stmt_idx + 1
    /\ UNCHANGED <<functions, flow_name, last_out, status, error, first_run, algVars, semVars>>

\* the end of `for stmt in &flow.body`: Ok(contexts)
ReturnContexts ==
    /\ status = "running"
    /\ stmt_idx > Len(Body)
    /\ status' = "ok"
    /\ UNCHANGED <<functions, flow_name, stmt_idx, contexts, ctx_idx,
                   next_contexts, last_out, error, first_run, algVars, semVars>>

\* the iteration orders a HashMap holding the same functions can have
IterationOrders ==
    {o \in Orders(DOMAIN FuncPool, Len(functions)) :
        /\ Len(o) = Len(functions)
        /\ \A i \in 1..Len(o) : Contains(functions, o[i])}

\* a second synthesize(flow_name) on a table of the same contents whose
\* function map iterates in another order; the first result is kept
SecondRun ==
    /\ status = "ok"
    /\ ~first_run.done
    /\ functions' \in IterationOrders
    /\ first_run' = [done |-> TRUE, contexts |-> contexts]
    /\ status' = "start"
    /\ stmt_idx' = 1
    /\ contexts' = <<>>
    /\ ctx_idx' = 1
    /\ next_contexts' = <<>>
    /\ last_out' = <<>>
    /\ UNCHANGED <<flow_name, error, algVars, semVars>>

Next ==
    \/ LookupFlow
    \/ LookupFails
    \/ AssignmentOk
    \/ AssignmentErr
    \/ AssignmentOverflow
    \/ ReturnStmt
    \/ SecondRun
    \/ NextStmt
    \/ ReturnContexts

Spec == Init /\ [][Next]_vars

\* the stepped run and the nested synthesize agree
StepsAgree ==
    /\ status = "ok" => contexts = synthesize(flow_name, MaxFlowDepth).val
    /\ (status = "err" /\ flow_name \in DOMAIN Flows) =>
            error = synthesize(flow_name, MaxFlowDepth).err

(***************************************************************************)
(* Claims about synthesis (checked under Spec).                            *)
(***************************************************************************)
SetOfAtoms(ch) == {ch[i] : i \in 1..Len(ch)}

\* every chain of the set contains all atoms of some chain of expand(c)
Subsumed(cset, c) ==
    \A ch \in cset : \E r \in expand(c) : SetOfAtoms(r) \subseteq SetOfAtoms(ch)

\* positional arguments, one per parameter, each subsumed by its parameter
ParamsSubsume(params, arg_results) ==
    /\ Len(params) = Len(arg_results)
    /\ \A i \in 1..Len(params) :
           Subsumed(arg_results[i].constraint_set, params[i].constraint)

\* every chain of the fully expanded expansion of the return matches R
ReturnSubsumes(f, R) ==
    \A ch \in expand(FuncPool[f].return_type) :
        \E r \in expand(R) :
            SetOfAtoms(r) \subseteq SetOfAtoms(fully_expand_chain(ch))

TableFunctions == {functions[i] : i \in 1..Len(functions)}

\* the candidate functions of a behavior call, as the claim states them
ClaimedCandidates(beh, arg_results) ==
    {f \in TableFunctions :
        /\ ParamsSubsume(FuncPool[f].params, arg_results)
        /\ ReturnSubsumes(f, Behaviors[beh].return_type)}

\* ... and with an inhabited return
InhabitedCandidates(beh, arg_results) ==
    {f \in ClaimedCandidates(beh, arg_results) :
        expand(FuncPool[f].return_type) # {}}

\* the last step evaluated an Assignment: last_out holds its results for
\* the context contexts[ctx_idx - 1]
JustEvaluated ==
    /\ status = "running"
    /\ stmt_idx <= Len(Body)
    /\ ctx_idx > 1
    /\ CurStmt.kind = "Assignment"

\* the last step failed on the Assignment for the context contexts[ctx_idx]
JustFailed ==
    /\ status = "err"
    /\ flow_name \in DOMAIN Flows

InContext == contexts[ctx_idx - 1]

IsCall == CurStmt.expr.kind = "Call"

\* the (ctx, arg_results) states at the call site of the current statement
SiteStates(ctx) ==
    ArgStates(CurStmt.expr.args, <<[ctx |-> ctx, args |-> <<>>]>>, MaxFlowDepth)

\* the node a result was given
OwnNode(r) == r.ctx.graph[r.id + 1]

\* C1: the graph of every context a call site yields is the graph of the
\* state it was dispatched from plus the one node of its own candidate.
C1_BranchIsolation ==
    (JustEvaluated /\ IsCall) =>
        \A i \in 1..Len(last_out) :
            \E j \in 1..Len(SiteStates(InContext).val) :
                last_out[i].ctx.graph =
                    Append(SiteStates(InContext).val[j].ctx.graph,
                           OwnNode(last_out[i]))

RECURSIVE Product(_)
Product(seq) == IF seq = <<>> THEN 1 ELSE Head(seq) * Product(Tail(seq))

\* the arguments of a call whose arguments are variables, read from ctx
VariableArgs(ctx, args) ==
    [i \in 1..Len(args) |->
        ArgResult(ctx.variables[args[i].value.name].node_id,
                  ctx.variables[args[i].value.name].constraint_set,
                  args[i].name)]

\* the number of candidates of a behavior call: functions and variants
BehaviorBranches(beh, arg_results) ==
    IF ParamsSubsume(Behaviors[beh].args, arg_results)
    THEN Cardinality(InhabitedCandidates(beh, arg_results))
         + Len(collect_variants(Behaviors[beh].return_type))
    ELSE 0

\* the number of branches of one statement whose arguments are variables
\* bound alike in every live context
Branches(stmt, ctx) ==
    IF stmt.kind = "Assignment" /\ stmt.expr.kind = "Call"
    THEN BehaviorBranches(stmt.expr.name, VariableArgs(ctx, stmt.expr.args))
    ELSE 1

\* flows whose statements are a universe, a literal, a return, or a behavior
\* call on variables that hold the same ConstraintSet in every context
IndependentFlows == {"trivial", "filter", "triple", "variants", "sub"}

\* C2: a flow of k successive dispatches with b_i candidates each returns
\* the product of the b_i contexts; three behavior calls with two surviving
\* functions each return eight.
C2_ProductOfBranches ==
    (status = "ok" /\ flow_name \in IndependentFlows) =>
        /\ Len(contexts) =
               Product([i \in 1..Len(Body) |-> Branches(Body[i], contexts[1])])
        /\ (flow_name = "triple" /\ {"mk", "mknz"} \subseteq TableFunctions)
               => Len(contexts) = 8

C2_Witness ==
    /\ status = "ok" /\ flow_name = "triple"
    /\ Len(contexts) = 8

\* the current statement calls a behavior on variables of ctx
BehaviorSite(ctx) ==
    /\ IsCall
    /\ CurStmt.expr.name \in DOMAIN Behaviors
    /\ \A i \in 1..Len(CurStmt.expr.args) :
           /\ CurStmt.expr.args[i].value.kind = "Identifier"
           /\ CurStmt.expr.args[i].value.name \in DOMAIN ctx.variables

\* the functions whose FunctionCall node the call site returned
ReturnedFunctions ==
    {OwnNode(last_out[i]).label[2] : i \in
        {k \in 1..Len(last_out) : OwnNode(last_out[k]).kind = "Operation"}}

\* C3 as stated: the FunctionCall candidates of B(v) are exactly the
\* functions f with every chain of v matching P_f and every chain of the
\* fully expanded expansion of R_f matching R.
C3_Original ==
    /\ (JustEvaluated /\ BehaviorSite(InContext)) =>
          ReturnedFunctions =
            ClaimedCandidates(CurStmt.expr.name,
                              VariableArgs(InContext, CurStmt.expr.args))
    /\ (JustFailed /\ BehaviorSite(CurContext)
           /\ error = NoImplFound(CurStmt.expr.name)) =>
          ClaimedCandidates(CurStmt.expr.name,
                            VariableArgs(CurContext, CurStmt.expr.args)) = {}

\* every chain of v matches the parameters of the behavior itself
BehaviorAccepts(ctx) ==
    ParamsSubsume(Behaviors[CurStmt.expr.name].args,
                  VariableArgs(ctx, CurStmt.expr.args))

\* C3 amended: when every chain of v matches P, the FunctionCall candidates
\* of B(v) are exactly the functions f with every chain of v matching P_f,
\* a non-empty expansion of R_f, and every chain of the fully expanded
\* expansion of R_f matching R.
C3_Candidates ==
    /\ (JustEvaluated /\ BehaviorSite(InContext) /\ BehaviorAccepts(InContext)) =>
          ReturnedFunctions =
            InhabitedCandidates(CurStmt.expr.name,
                                VariableArgs(InContext, CurStmt.expr.args))
    /\ (JustFailed /\ BehaviorSite(CurContext) /\ BehaviorAccepts(CurContext)
           /\ error = NoImplFound(CurStmt.expr.name)) =>
          InhabitedCandidates(CurStmt.expr.name,
                              VariableArgs(CurContext, CurStmt.expr.args)) = {}

C3_Witness ==
    /\ JustEvaluated /\ BehaviorSite(InContext) /\ BehaviorAccepts(InContext)
    /\ flow_name = "filter"
    /\ TableFunctions = {"ratio", "frame", "toframe"}
    /\ ReturnedFunctions = {"ratio"}

\* C4: a statement fails only when its expression yields no result under
\* any live context.
C4_FailsOnlyWhenAllEmpty ==
    JustFailed =>
        \A i \in 1..Len(contexts) :
            evaluate_expr(CurStmt.expr, contexts[i], MaxFlowDepth).err # <<>>

\* the contexts of a referenced flow that bind "result"
FlowResults(name) ==
    SelectSeq(synthesize(name, MaxFlowDepth - 1).val,
              LAMBDA c : "result" \in DOMAIN c.variables)

\* the number of candidates one (ctx, arg_results) state produces for a call
CandidateCount(name, arg_results) ==
    IF name \in DOMAIN Behaviors /\ ParamsSubsume(Behaviors[name].args, arg_results)
    THEN BehaviorBranches(name, arg_results)
    ELSE IF HasFunction(name) /\ ParamsSubsume(FuncPool[name].params, arg_results)
    THEN 1
    ELSE IF name \in DOMAIN Flows /\ arg_results = <<>>
    THEN Len(FlowResults(name))
    ELSE 0

RECURSIVE Sum(_)
Sum(seq) == IF seq = <<>> THEN 0 ELSE Head(seq) + Sum(Tail(seq))

\* the candidates over all states of the call site of the current statement
SiteCandidates(ctx) ==
    Sum([j \in 1..Len(SiteStates(ctx).val) |->
            CandidateCount(CurStmt.expr.name, SiteStates(ctx).val[j].args)])

\* the arguments of the call evaluate
ArgsEvaluate(ctx) == SiteStates(ctx).err = <<>>

\* the call reaches a referenced flow whose own synthesis fails
ReferencedFlowFails(ctx) ==
    /\ CurStmt.expr.name \in DOMAIN Flows
    /\ \E j \in 1..Len(SiteStates(ctx).val) :
          /\ SiteStates(ctx).val[j].args = <<>>
          /\ CandidateCount(CurStmt.expr.name, <<>>) = 0
    /\ synthesize(CurStmt.expr.name, MaxFlowDepth - 1).err # <<>>

\* the call returned (the recursion bound of the model was not reached)
Returned == error # StackOverflow

\* C5 as stated: a call whose arguments evaluate returns NoImplFound(name)
\* exactly when no state produces a candidate; several candidates are never
\* an error and each is a separate result.
C5_Original ==
    /\ (JustFailed /\ IsCall /\ ArgsEvaluate(CurContext) /\ Returned) =>
          /\ SiteCandidates(CurContext) = 0
          /\ error = NoImplFound(CurStmt.expr.name)
    /\ (JustEvaluated /\ IsCall) =>
          /\ SiteCandidates(InContext) > 0
          /\ Len(last_out) = SiteCandidates(InContext)

\* C5 amended: a call whose arguments evaluate and that reaches no failing
\* referenced flow returns NoImplFound(name) exactly when no state produces
\* a candidate; the error of a failing referenced flow is returned as it is;
\* several candidates are never an error and each is a separate result.
C5_NoImplFound ==
    /\ (JustFailed /\ IsCall /\ ArgsEvaluate(CurContext) /\ Returned) =>
          /\ SiteCandidates(CurContext) = 0
          /\ IF ReferencedFlowFails(CurContext)
             THEN error = synthesize(CurStmt.expr.name, MaxFlowDepth - 1).err
             ELSE error = NoImplFound(CurStmt.expr.name)
    /\ (JustEvaluated /\ IsCall) =>
          /\ SiteCandidates(InContext) > 0
          /\ Len(last_out) = SiteCandidates(InContext)

C5_Witness ==
    /\ JustEvaluated /\ IsCall
    /\ flow_name = "filter"
    /\ Len(last_out) >= 2

\* the contexts the program holds
HeldContexts ==
    {contexts[i] : i \in 1..Len(contexts)}
    \cup {next_contexts[i] : i \in 1..Len(next_contexts)}
    \cup {last_out[i].ctx : i \in 1..Len(last_out)}

\* an Operation node at 0-based id i - 1 refers only to smaller ids
ArgsPrecede(graph) ==
    \A i \in 1..Len(graph) :
        graph[i].kind = "Operation" =>
            \A k \in 1..Len(graph[i].args) : graph[i].args[k] \in 0..(i - 2)

\* every variable designates a node of the graph
VariablesValid(ctx) ==
    \A v \in DOMAIN ctx.variables :
        ctx.variables[v].node_id \in 0..(Len(ctx.graph) - 1)

\* C6: node ids are the indices 0..n-1 of the graph; every argument id of an
\* Operation node is smaller than the node's own id; every variable's
\* node_id is an index of its context's graph.
C6_GraphWellFormed ==
    /\ \A c \in HeldContexts : ArgsPrecede(c.graph) /\ VariablesValid(c)
    /\ \A i \in 1..Len(last_out) :
          last_out[i].id \in 0..(Len(last_out[i].ctx.graph) - 1)

C6_Witness ==
    /\ status = "ok"
    /\ \E i \in 1..Len(contexts) :
          /\ Cardinality(DOMAIN contexts[i].variables) >= 2
          /\ \E n \in 1..Len(contexts[i].graph) :
                /\ contexts[i].graph[n].kind = "Operation"
                /\ Len(contexts[i].graph[n].args) = 2

\* the flows that reference themselves, directly or through another flow
SelfReferencingFlows == {"loop", "ping", "pong"}

\* C13: synthesizing a flow that references itself, directly or through
\* other flows, ends by returning a dedicated recursion error; the recursion
\* is never left to run until the stack is exhausted.
C13_RecursionError ==
    (flow_name \in SelfReferencingFlows /\ status \notin {"start", "running"}) =>
        /\ status = "err"
        /\ error \in {<<"RecursionLimit", flow_name>>, <<"RecursiveFlow", flow_name>>}

SetOfContexts(list) == {list[i] : i \in 1..Len(list)}

\* C14: a second run of synthesize on the same flow and a table of the same
\* contents returns the same contexts, graphs and bindings alike, whatever
\* the order in which the function map is iterated during dispatch.
C14_Deterministic ==
    (first_run.done /\ status \notin {"start", "running"}) =>
        /\ status = "ok"
        /\ SetOfContexts(contexts) = SetOfContexts(first_run.contexts)

\* the ids the nodes of S refer to
ArgsOf(graph, S) ==
    UNION {{graph[i + 1].args[k] : k \in 1..Len(graph[i + 1].args)} : i \in S}

\* the ids reachable from the ids of S along arguments
RECURSIVE ReachableIds(_, _)
ReachableIds(graph, S) ==
    IF ArgsOf(graph, S) \subseteq S THEN S
    ELSE ReachableIds(graph, S \cup ArgsOf(graph, S))

\* the ids reachable from the node bound to result
ResultIds(ctx) == ReachableIds(ctx.graph, {ctx.variables["result"].node_id})

\* the contexts synthesize returned that bind result
Emitted ==
    {c \in SetOfContexts(contexts) : "result" \in DOMAIN c.variables}

IsLeaf(node) == node.kind \in {"Source", "Constant"} \/ node.args = <<>>

ComponentUniverse(ctx) ==
    /\ CurStmt.expr.kind = "Identifier"
    /\ CurStmt.expr.name \notin DOMAIN ctx.variables
    /\ CurStmt.expr.name \in DOMAIN Types
    /\ Types[CurStmt.expr.name].components # NoneOpt

ComponentsOfUniverse == Types[CurStmt.expr.name].components[1]

\* C16: using as a universe a type that declares m components yields m
\* result contexts, the i-th with the node Source("Universe(C_i)") of its
\* component C_i.
C16_ComponentBranches ==
    (JustEvaluated /\ ComponentUniverse(InContext)) =>
        /\ Len(last_out) = Len(ComponentsOfUniverse)
        /\ \A i \in 1..Len(last_out) :
              OwnNode(last_out[i]) =
                  SourceNode(<<"Universe", ComponentsOfUniverse[i]>>,
                             ComponentsOfUniverse[i])

(***************************************************************************)
(* SpecAlg: inputs of the constraint algebra and the operations on them.   *)
(***************************************************************************)
AlgNames == {"Series", "NonZero", "'a"}

AlgAtoms == {TypeAtom("Series"), TypeAtom("NonZero"), VariableAtom("'a")}

Leaves == {Atom(n) : n \in AlgNames} \cup {NoneC}

ChildLists(S) == UNION {[1..n -> S] : n \in 0..MaxArity}

\* every tree with one operator over leaves
Trees ==
    Leaves
    \cup {Addition(l) : l \in ChildLists(Leaves)}
    \cup {Union(l) : l \in ChildLists(Leaves)}
    \cup {Subtraction(l, r) : l \in Leaves, r \in Leaves}

\* trees with a second operator on top
DeepTrees ==
    Trees
    \cup {Subtraction(l, r) : l \in Trees, r \in Trees}
    \cup {Addition(<<l, r>>) : l \in Trees, r \in Trees}
    \cup {Union(<<l, r>>) : l \in Trees, r \in Trees}

\* the inputs of matches_chain: trees, and subtractions over them
MatchTrees ==
    Trees
    \cup {Subtraction(l, r) : l \in Trees, r \in Leaves}
    \cup {Subtraction(l, r) : l \in Leaves, r \in Trees}

\* triples of which at least one is a leaf
Triples ==
    (Trees \X Trees \X Leaves) \cup (Trees \X Leaves \X Trees)
    \cup (Leaves \X Trees \X Trees)

Chains == UNION {[1..n -> AlgAtoms] : n \in 0..MaxChainLen}

\* the return constraints whose chains are closed: over types with
\* properties, parents, a property cycle and an undeclared parent
ClosureNames == {"Vol", "Px", "Even", "Odd", "Orphan", "Series", "'a"}
ClosureLeaves == {Atom(n) : n \in ClosureNames}
ClosureTrees ==
    ClosureLeaves
    \cup {Addition(<<l, r>>) : l \in ClosureLeaves, r \in ClosureLeaves}
    \cup {Union(<<l, r>>) : l \in ClosureLeaves, r \in ClosureLeaves}

\* the parameter lists: distinct names, atomic constraints
ParamNames == {"x", "y"}
ParamConstraints == {Atom("Series"), Atom("NonZero")}
RequiredLists ==
    {r \in UNION {[1..n -> {TypedArg(n2, c) : n2 \in ParamNames,
                                              c \in ParamConstraints}] :
                    n \in 0..MaxArity} :
        \A i, j \in 1..Len(r) : r[i].name = r[j].name => i = j}

\* the argument lists: unnamed, named after a parameter, or named "z";
\* ConstraintSets of no chain, one chain, or two
ArgNames == {NoneOpt, Some("x"), Some("y"), Some("z")}
ArgSets == {{}, {<<TypeAtom("Series")>>},
            {<<TypeAtom("NonZero"), TypeAtom("Series")>>},
            {<<TypeAtom("Series")>>, <<TypeAtom("NonZero")>>}}
ProvidedLists ==
    UNION {[1..n -> {ArgResult(0, cs, nm) : cs \in ArgSets, nm \in ArgNames}] :
              n \in 0..MaxArity}

\* pairs of chains of which the second holds every atom of the first
ChainPairs ==
    {p \in Chains \X Chains :
        \A i \in 1..Len(p[1]) : \E j \in 1..Len(p[2]) : p[2][j] = p[1][i]}

Laws == {"UnionTwice", "AdditionTwice", "Distribute", "SubtractUnion", "Matches",
         "Closure", "ArgsMatch", "Monotone"}

SynIdle ==
    /\ first_run = NoRun
    /\ functions = <<>>
    /\ flow_name = ""
    /\ stmt_idx = 0
    /\ contexts = <<>>
    /\ ctx_idx = 0
    /\ next_contexts = <<>>
    /\ last_out = <<>>
    /\ status = "idle"
    /\ error = <<>>

InitAlg ==
    /\ law \in Laws
    /\ \E t \in CASE law = "Distribute"    -> Triples
                  [] law = "SubtractUnion" -> Trees \X Trees \X {NoneC}
                  [] law = "Matches"       -> {NoneC} \X {NoneC} \X MatchTrees
                  [] law = "Monotone"      -> {NoneC} \X {NoneC} \X MatchTrees
                  [] law = "ArgsMatch"     -> {<<NoneC, NoneC, NoneC>>}
                  [] law = "Closure"       -> {NoneC} \X {NoneC} \X ClosureTrees
                  [] OTHER                 -> {NoneC} \X {NoneC} \X DeepTrees :
          cA = t[1] /\ cB = t[2] /\ cC = t[3]
    /\ \E p \in CASE law = "Matches"  -> {<<c, <<>>>> : c \in Chains}
                  [] law = "Monotone" -> ChainPairs
                  [] OTHER            -> {<< <<>>, <<>> >>} :
          chain = p[1] /\ chain2 = p[2]
    /\ inRequired \in IF law = "ArgsMatch" THEN RequiredLists ELSE {<<>>}
    /\ inProvided \in IF law = "ArgsMatch" THEN ProvidedLists ELSE {<<>>}
    /\ outM2 = FALSE
    /\ applied = FALSE
    /\ outL = {}
    /\ outR = {}
    /\ outM = FALSE
    /\ SynIdle
    /\ SemIdle

\* expand(Union(C, C)) and expand(C)
ApplyUnionTwice ==
    /\ law = "UnionTwice" /\ ~applied
    /\ outL' = expand(Union(<<cC, cC>>))
    /\ outR' = expand(cC)
    /\ applied' = TRUE
    /\ UNCHANGED <<law, cA, cB, cC, chain, outM, argVars, synVars, semVars>>

\* expand(Addition(C, C)) and expand(C)
ApplyAdditionTwice ==
    /\ law = "AdditionTwice" /\ ~applied
    /\ outL' = expand(Addition(<<cC, cC>>))
    /\ outR' = expand(cC)
    /\ applied' = TRUE
    /\ UNCHANGED <<law, cA, cB, cC, chain, outM, argVars, synVars, semVars>>

\* expand(Union(Addition(A,C), Addition(B,C))) and expand(Addition(Union(A,B), C))
ApplyDistribute ==
    /\ law = "Distribute" /\ ~applied
    /\ outL' = expand(Union(<<Addition(<<cA, cC>>), Addition(<<cB, cC>>)>>))
    /\ outR' = expand(Addition(<<Union(<<cA, cB>>), cC>>))
    /\ applied' = TRUE
    /\ UNCHANGED <<law, cA, cB, cC, chain, outM, argVars, synVars, semVars>>

\* expand(Subtraction(Union(A,B), B)) and expand(A)
ApplySubtractUnion ==
    /\ law = "SubtractUnion" /\ ~applied
    /\ outL' = expand(Subtraction(Union(<<cA, cB>>), cB))
    /\ outR' = expand(cA)
    /\ applied' = TRUE
    /\ UNCHANGED <<law, cA, cB, cC, chain, outM, argVars, synVars, semVars>>

\* matches_chain(chain, C), and expand(C)
ApplyMatches ==
    /\ law = "Matches" /\ ~applied
    /\ outM' = matches_chain(chain, cC)
    /\ outR' = expand(cC)
    /\ applied' = TRUE
    /\ UNCHANGED <<law, cA, cB, cC, chain, outL, argVars, synVars, semVars>>

\* `for chain in fn_constraints { full_fn_constraints.insert(
\* self.fully_expand_chain(chain)) }` on the expansion of C
ApplyClosure ==
    /\ law = "Closure" /\ ~applied
    /\ outR' = expand(cC)
    /\ outL' = FullFnConstraints([return_type |-> cC])
    /\ applied' = TRUE
    /\ UNCHANGED <<law, cA, cB, cC, chain, outM, argVars, synVars, semVars>>

\* check_args_match(required, provided)
ApplyArgsMatch ==
    /\ law = "ArgsMatch" /\ ~applied
    /\ outM' = check_args_match(inRequired, inProvided)
    /\ applied' = TRUE
    /\ UNCHANGED <<law, cA, cB, cC, chain, outL, outR, argVars, synVars, semVars>>

\* matches_chain(chain, C) and matches_chain(chain2, C)
ApplyMonotone ==
    /\ law = "Monotone" /\ ~applied
    /\ outM' = matches_chain(chain, cC)
    /\ outM2' = matches_chain(chain2, cC)
    /\ applied' = TRUE
    /\ UNCHANGED <<law, cA, cB, cC, chain, outL, outR, inRequired, inProvided,
                   chain2, synVars, semVars>>

NextAlg ==
    \/ ApplyUnionTwice
    \/ ApplyAdditionTwice
    \/ ApplyDistribute
    \/ ApplySubtractUnion
    \/ ApplyMatches
    \/ ApplyClosure
    \/ ApplyArgsMatch
    \/ ApplyMonotone

SpecAlg == InitAlg /\ [][NextAlg]_vars

(***************************************************************************)
(* Claims about the constraint algebra (checked under SpecAlg).            *)
(***************************************************************************)
AtomsOf(ch) == {ch[i] : i \in 1..Len(ch)}

\* the canonical chain of a set of atoms: Types before Variables, each by name
IsCanonical(ch) ==
    \A i \in 1..Len(ch) : \A j \in 1..Len(ch) : i < j => AtomLess(ch[i], ch[j])

CanonicalChain(S) ==
    CHOOSE ch \in [1..Cardinality(S) -> S] : AtomsOf(ch) = S /\ IsCanonical(ch)

\* C7 as stated: expand(Union(C,C)) = expand(C) and
\* expand(Addition(C,C)) = expand(C), for every C.
C7_Original ==
    (applied /\ law \in {"UnionTwice", "AdditionTwice"}) => outL = outR

\* C7 amended: expand(Union(C,C)) = expand(C) for every C;
\* expand(Addition(C,C)) is the set of canonical merges of every two chains
\* of expand(C): it contains expand(C), and equals it when expand(C) has at
\* most one chain.
C7_Idempotence ==
    /\ (applied /\ law = "UnionTwice") => outL = outR
    /\ (applied /\ law = "AdditionTwice") =>
          /\ outL = {CanonicalChain(AtomsOf(c1) \cup AtomsOf(c2)) :
                        c1 \in outR, c2 \in outR}
          /\ outR \subseteq outL
          /\ Cardinality(outR) <= 1 => outL = outR

C7_Witness ==
    /\ applied /\ law = "AdditionTwice"
    /\ Cardinality(outR) >= 2
    /\ \E ch \in outL : Len(ch) >= 2

\* C8: expand(Union(Addition(A,C), Addition(B,C))) =
\* expand(Addition(Union(A,B), C)) for all A, B, C.
C8_Distribution ==
    (applied /\ law = "Distribute") => outL = outR

C8_Witness ==
    /\ applied /\ law = "Distribute"
    /\ cC.op = "Union"
    /\ Cardinality(outL) >= 3
    /\ \E ch \in outL : Len(ch) >= 2

NoSharedChain == expand(cA) \cap expand(cB) = {}

\* no chain of expand(A) contains all the atoms of a chain of expand(B)
NoChainOfAMatchesB ==
    \A a \in expand(cA) : ~\E b \in expand(cB) : AtomsOf(b) \subseteq AtomsOf(a)

\* C9 as stated: expand(Subtraction(Union(A,B), B)) = expand(A) whenever
\* expand(A) and expand(B) have no chain in common.
C9_Original ==
    (applied /\ law = "SubtractUnion" /\ NoSharedChain) => outL = outR

\* C9 amended: expand(Subtraction(Union(A,B), B)) = expand(A) whenever no
\* chain of expand(A) matches B.
C9_SubtractUnion ==
    (applied /\ law = "SubtractUnion" /\ NoChainOfAMatchesB) => outL = outR

C9_Witness ==
    /\ applied /\ law = "SubtractUnion" /\ NoChainOfAMatchesB
    /\ expand(cB) # {}
    /\ Cardinality(outL) >= 2

\* C10: matches_chain(chain, C) is true iff some chain of expand(C) has all
\* its atoms in chain; for C = Atom(a) iff chain contains a; true whenever
\* expand(C) holds the empty chain; false whenever expand(C) is empty.
C10_MatchesChain ==
    (applied /\ law = "Matches") =>
        /\ outM = (\E r \in outR : AtomsOf(r) \subseteq AtomsOf(chain))
        /\ cC.op = "Atom" =>
              outM = ((IF StartsWithSigil(cC.name) THEN VariableAtom(cC.name)
                       ELSE TypeAtom(cC.name)) \in AtomsOf(chain))
        /\ <<>> \in outR => outM
        /\ outR = {} => ~outM

C10_Witness ==
    /\ applied /\ law = "Matches"
    /\ outM
    /\ cC.op = "Subtraction"
    /\ Len(chain) = 2
    /\ \E r \in outR : Len(r) = 2


\* C17: every chain of expand(C), for every constraint tree C, has no
\* duplicate atom and lists its atoms in the canonical order: Type atoms
\* before Variable atoms, each group ascending by name.
C17_CanonicalChains ==
    (applied /\ law # "Closure") => \A ch \in outL \cup outR : IsCanonical(ch)

C17_Witness ==
    /\ applied
    /\ law = "Distribute"
    /\ cA = Addition(<<Atom("'a"), Atom("Series")>>)
    /\ cC = Atom("NonZero")
    /\ <<TypeAtom("NonZero"), TypeAtom("Series"), VariableAtom("'a")>> \in outL

\* C18: every chain of every ConstraintSet that evaluate_expr returns or
\* that is bound to a variable, the chain of a universe and the chains of
\* variant and function candidates included, is in the canonical order.
C18_SortedConstraintSets ==
    /\ \A i \in 1..Len(last_out) :
          \A ch \in last_out[i].set : IsCanonical(ch)
    /\ \A c \in HeldContexts :
          \A v \in DOMAIN c.variables :
              \A ch \in c.variables[v].constraint_set : IsCanonical(ch)

\* the atoms a Type atom grants: the declared properties of the type it
\* names and the atoms of its expanded parent constraint
Granted(a) ==
    IF a.kind = "Type" /\ a.name \in DOMAIN Types
    THEN {TypeAtom(Types[a.name].properties[i]) :
              i \in 1..Len(Types[a.name].properties)}
         \cup (IF Types[a.name].parent_constraint = NoneOpt THEN {}
               ELSE UNION {AtomsOf(pc) :
                       pc \in expand(Types[a.name].parent_constraint[1])})
    ELSE {}

GrantStep(S) == S \cup UNION {Granted(a) : a \in S}

\* the atoms reachable from S by following grants
RECURSIVE GrantClosure(_)
GrantClosure(S) == IF GrantStep(S) = S THEN S ELSE GrantClosure(GrantStep(S))

\* C19: fully_expand_chain returns, also on a cyclic property/parent graph,
\* exactly the input atoms plus every atom reachable from them through
\* properties and expanded parent constraints, without duplicates and in
\* the canonical order.
C19_PropertyClosure ==
    (applied /\ law = "Closure") =>
        /\ \A out \in outL :
              /\ IsCanonical(out)
              /\ \E ch \in outR : AtomsOf(out) = GrantClosure(AtomsOf(ch))
        /\ \A ch \in outR :
              \E out \in outL : AtomsOf(out) = GrantClosure(AtomsOf(ch))

C19_Witness ==
    /\ applied /\ law = "Closure"
    /\ cC = Addition(<<Atom("Px"), Atom("Even")>>)
    /\ outL = {<<TypeAtom("Even"), TypeAtom("NonZero"), TypeAtom("Odd"),
                 TypeAtom("Px"), TypeAtom("Series")>>}

\* the undeclared type names that parent constraints of the closure name
UndeclaredParents(S) ==
    {a.name : a \in {b \in GrantClosure(S) :
        /\ b.kind = "Type"
        /\ b.name \notin DOMAIN Types
        /\ \E t \in GrantClosure(S) :
              /\ t.kind = "Type" /\ t.name \in DOMAIN Types
              /\ Types[t.name].parent_constraint # NoneOpt
              /\ \E pc \in expand(Types[t.name].parent_constraint[1]) :
                    b \in AtomsOf(pc)}}

\* C20: when the closure reaches an atom naming a parent type that is not
\* declared, an unknown-parent-type error is reported.
C20_UnknownParentError ==
    (applied /\ law = "Closure") =>
        \A ch \in outR :
            \A n \in UndeclaredParents(AtomsOf(ch)) :
                sem_error = <<"UnknownType", n>>

\* the arguments given by name, and the positions of the others in order
NamedArgs == {i \in 1..Len(inProvided) : inProvided[i].name # NoneOpt}
PositionalArgs ==
    SelectSeq([i \in 1..Len(inProvided) |-> i],
              LAMBDA i : inProvided[i].name = NoneOpt)

\* the positions of the parameters no argument names, in order
UnboundParams ==
    SelectSeq([j \in 1..Len(inRequired) |-> j],
              LAMBDA j : \A i \in NamedArgs :
                            inProvided[i].name # Some(inRequired[j].name))

\* C22: check_args_match accepts exactly when the counts agree, every named
\* argument names a parameter, the parameters not bound by name take the
\* positional arguments in order with none left over, and every chain of
\* every bound argument matches the constraint of its parameter.
C22_ArgsMatch ==
    (applied /\ law = "ArgsMatch") =>
        outM =
          ( /\ Len(inProvided) = Len(inRequired)
            /\ \A i \in NamedArgs :
                  \E j \in 1..Len(inRequired) :
                      inProvided[i].name = Some(inRequired[j].name)
            /\ Len(UnboundParams) = Len(PositionalArgs)
            /\ \A k \in 1..Len(UnboundParams) :
                  Subsumed(inProvided[PositionalArgs[k]].constraint_set,
                           inRequired[UnboundParams[k]].constraint)
            /\ \A i \in NamedArgs : \A j \in 1..Len(inRequired) :
                  inProvided[i].name = Some(inRequired[j].name) =>
                      Subsumed(inProvided[i].constraint_set,
                               inRequired[j].constraint) )

\* accepted: the first argument names the second parameter, the second is
\* positional and takes the first
C22_Witness ==
    /\ applied /\ law = "ArgsMatch" /\ outM
    /\ Len(inRequired) = 2
    /\ inProvided[1].name = Some(inRequired[2].name)
    /\ inProvided[2].name = NoneOpt
    /\ inRequired[1].constraint # inRequired[2].constraint
    /\ inProvided[1].constraint_set # {} /\ inProvided[2].constraint_set # {}

\* C29: matches_chain is monotone in the chain: when it accepts a chain for
\* a constraint C, Subtraction included, it accepts every chain that holds
\* all atoms of that chain.
C29_MonotoneInChain ==
    (applied /\ law = "Monotone" /\ outM) => outM2

C29_Witness ==
    /\ applied /\ law = "Monotone" /\ outM /\ outM2
    /\ cC.op = "Subtraction"
    /\ Len(chain2) > Len(chain)

(***************************************************************************)
(* Semantic analysis (src/comet/semantics.rs): the registrar and the       *)
(* recursive import walk.                                                  *)
(***************************************************************************)
\* the deepest nesting of process_program calls the model follows
MaxImportDepth == 4

\* the file system: paths are sequences of components
FileA == <<"p", "a.cm">>
FileB == <<"p", "b.cm">>
FileC == <<"p", "c.cm">>
FileBad == <<"p", "bad.cm">>
ExistingDirs == {<<"p">>, <<"p", "x">>}
ExistingFiles == {FileA, FileB, FileC, FileBad}
Symlinks == [l \in {<<"p", "link.cm">>} |-> FileC]
\* the files whose text crate::comet::parser::parse accepts
SourceFiles == {FileA, FileB, FileC}

\* a path component followed through a symbolic link
FollowLink(path) == IF path \in DOMAIN Symlinks THEN Symlinks[path] ELSE path

\* Path::canonicalize: resolves ".", ".." and symbolic links component by
\* component and fails when a component does not exist
RECURSIVE Resolve(_, _)
Resolve(rest, acc) ==
    IF rest = <<>> THEN Some(acc)
    ELSE IF Head(rest) = "." THEN Resolve(Tail(rest), acc)
    ELSE IF Head(rest) = ".."
    THEN Resolve(Tail(rest), SubSeq(acc, 1, Len(acc) - 1))
    ELSE IF FollowLink(Append(acc, Head(rest))) \in ExistingDirs \cup ExistingFiles
    THEN Resolve(Tail(rest), FollowLink(Append(acc, Head(rest))))
    ELSE NoneOpt

canonicalize(path) == Resolve(path, <<>>)

\* full_path = base_path; full_path.pop(); full_path.push(path)
JoinImport(base, path) == SubSeq(base, 1, Len(base) - 1) \o path

\* ast::Declaration
Import(path) == [kind |-> "Import", path |-> path, name |-> "", body |-> ""]
Declaration(kind, name, body) ==
    [kind |-> kind, path |-> <<>>, name |-> name, body |-> body]

DuplicateType(n)     == <<"DuplicateType", n>>
DuplicateBehavior(n) == <<"DuplicateBehavior", n>>
ImportError(n)       == <<"ImportError", n>>

\* SemanticAnalyzer::register_declaration
register_declaration(table, d) ==
    IF d.kind = "Type"
    THEN IF d.name \in DOMAIN table.types
         THEN [err |-> DuplicateType(d.name), table |-> table]
         ELSE [err |-> <<>>,
               table |-> [table EXCEPT !.types = MapInsert(@, d.name, d.body)]]
    ELSE IF d.kind = "Behavior"
    THEN IF d.name \in DOMAIN table.behaviors
         THEN [err |-> DuplicateBehavior(d.name), table |-> table]
         ELSE [err |-> <<>>,
               table |-> [table EXCEPT !.behaviors = MapInsert(@, d.name, d.body)]]
    ELSE IF d.kind = "Function"
    THEN [err |-> <<>>,
          table |-> [table EXCEPT !.functions = MapInsert(@, d.name, d.body)]]
    ELSE IF d.kind = "Flow"
    THEN [err |-> <<>>,
          table |-> [table EXCEPT !.flows = MapInsert(@, d.name, d.body)]]
    ELSE [err |-> <<>>, table |-> table]

\* a walk that never finds a file loaded
AlreadyLoadedNever(path) == FALSE

\* `self.loaded_files.contains(&full_path)`
AlreadyLoaded(path) == path \in loaded_files

(***************************************************************************)
(* SpecSem: a file system of three source files and one analyze call.      *)
(***************************************************************************)
Kinds == {"Type", "Behavior", "Function", "Flow"}

\* the import paths written in the root file
RootImports ==
    {<<"b.cm">>, <<".", "b.cm">>, <<"x", "..", "b.cm">>, <<"link.cm">>,
     <<"c.cm">>, <<"a.cm">>, <<"gone.cm">>, <<"bad.cm">>}
SecondImports == {<<"x", "..", "b.cm">>, <<"b.cm">>, <<"link.cm">>, <<"c.cm">>}
ImportsOfB == {<<"a.cm">>, <<"c.cm">>, <<"link.cm">>, <<".", "b.cm">>}
ImportsOfC == {<<"x", "..", "a.cm">>, <<"b.cm">>}
BasePaths == {FileA, <<"p", ".", "a.cm">>, <<"p", "gone.cm">>}

InitSem ==
    /\ \E i1 \in RootImports, i2 \in SecondImports, ib \in ImportsOfB,
          ic \in ImportsOfC, ka \in Kinds, kb \in Kinds, kc \in {"Type", "Flow"} :
          programs = [f \in SourceFiles |->
              IF f = FileA
              THEN <<Import(i1), Declaration(ka, "X", "a"), Import(i2)>>
              ELSE IF f = FileB
              THEN <<Declaration(kb, "X", "b"), Import(ib)>>
              ELSE <<Import(ic), Declaration(kc, "X", "c")>>]
    /\ base_path \in BasePaths
    /\ symbol_table = SymbolTableNew
    /\ loaded_files = {}
    /\ call_stack = <<>>
    /\ processed = [f \in SourceFiles |-> 0]
    /\ sem_status = "start"
    /\ sem_error = <<>>
    /\ AlgIdle
    /\ SynIdle

TopFrame == call_stack[Len(call_stack)]
CurProgram == programs[TopFrame.file]
CurDecl == CurProgram[TopFrame.pc]
\* the loop of process_program moves to the next declaration
AdvanceTop == [call_stack EXCEPT ![Len(call_stack)].pc = @ + 1]
\* `for decl in &program.declarations` has a declaration left
InProgram ==
    /\ sem_status = "running"
    /\ call_stack # <<>>
    /\ TopFrame.pc <= Len(CurProgram)
\* the canonical path of the import under the top frame
ImportTarget == canonicalize(JoinImport(TopFrame.file, CurDecl.path))

\* analyze: the base path resolves; process_program(program, &path)
AnalyzeRoot ==
    /\ sem_status = "start"
    /\ canonicalize(base_path) # NoneOpt
    /\ loaded_files' = loaded_files \cup {canonicalize(base_path)[1]}
    /\ call_stack' = <<[file |-> canonicalize(base_path)[1], pc |-> 1]>>
    /\ processed' = [processed EXCEPT ![canonicalize(base_path)[1]] = @ + 1]
    /\ sem_status' = "running"
    /\ UNCHANGED <<programs, base_path, symbol_table, sem_error, algVars, synVars>>

\* analyze: Err(ImportError("Invalid base path"))
AnalyzeBadPath ==
    /\ sem_status = "start"
    /\ canonicalize(base_path) = NoneOpt
    /\ sem_status' = "err"
    /\ sem_error' = ImportError("Invalid base path")
    /\ UNCHANGED <<programs, base_path, symbol_table, loaded_files, call_stack,
                   processed, algVars, synVars>>

\* register_declaration(decl) returns Ok
RegisterOk ==
    /\ InProgram
    /\ CurDecl.kind # "Import"
    /\ register_declaration(symbol_table, CurDecl).err = <<>>
    /\ symbol_table' = register_declaration(symbol_table, CurDecl).table
    /\ call_stack' = AdvanceTop
    /\ UNCHANGED <<programs, base_path, loaded_files, processed, sem_status,
                   sem_error, algVars, synVars>>

\* register_declaration(decl)? returns the error
RegisterErr ==
    /\ InProgram
    /\ CurDecl.kind # "Import"
    /\ register_declaration(symbol_table, CurDecl).err # <<>>
    /\ sem_status' = "err"
    /\ sem_error' = register_declaration(symbol_table, CurDecl).err
    /\ UNCHANGED <<programs, base_path, symbol_table, loaded_files, call_stack,
                   processed, algVars, synVars>>

\* load_import: the path is already loaded
LoadImportSkip ==
    /\ InProgram
    /\ CurDecl.kind = "Import"
    /\ ImportTarget # NoneOpt
    /\ AlreadyLoaded(ImportTarget[1])
    /\ call_stack' = AdvanceTop
    /\ UNCHANGED <<programs, base_path, symbol_table, loaded_files, processed,
                   sem_status, sem_error, algVars, synVars>>

\* load_import: insert, read, parse, process_program(&program, &full_path)
LoadImport ==
    /\ InProgram
    /\ CurDecl.kind = "Import"
    /\ ImportTarget # NoneOpt
    /\ ~AlreadyLoaded(ImportTarget[1])
    /\ ImportTarget[1] \in SourceFiles
    /\ Len(call_stack) < MaxImportDepth
    /\ loaded_files' = loaded_files \cup {ImportTarget[1]}
    /\ call_stack' = Append(AdvanceTop, [file |-> ImportTarget[1], pc |-> 1])
    /\ processed' = [processed EXCEPT ![ImportTarget[1]] = @ + 1]
    /\ UNCHANGED <<programs, base_path, symbol_table, sem_status, sem_error,
                   algVars, synVars>>

\* load_import: the path does not resolve
LoadImportUnresolved ==
    /\ InProgram
    /\ CurDecl.kind = "Import"
    /\ ImportTarget = NoneOpt
    /\ sem_status' = "err"
    /\ sem_error' = ImportError("Failed to resolve path")
    /\ UNCHANGED <<programs, base_path, symbol_table, loaded_files, call_stack,
                   processed, algVars, synVars>>

\* load_import: the file is inserted and read, and does not parse
LoadImportParseError ==
    /\ InProgram
    /\ CurDecl.kind = "Import"
    /\ ImportTarget # NoneOpt
    /\ ~AlreadyLoaded(ImportTarget[1])
    /\ ImportTarget[1] \notin SourceFiles
    /\ loaded_files' = loaded_files \cup {ImportTarget[1]}
    /\ sem_status' = "err"
    /\ sem_error' = ImportError("Parse error")
    /\ UNCHANGED <<programs, base_path, symbol_table, call_stack, processed,
                   algVars, synVars>>

\* process_program returns Ok(()) to load_import or to analyze
ProcessReturn ==
    /\ sem_status = "running"
    /\ call_stack # <<>>
    /\ TopFrame.pc > Len(CurProgram)
    /\ call_stack' = SubSeq(call_stack, 1, Len(call_stack) - 1)
    /\ sem_status' = IF Len(call_stack) = 1 THEN "ok" ELSE "running"
    /\ UNCHANGED <<programs, base_path, symbol_table, loaded_files, processed,
                   sem_error, algVars, synVars>>

NextSem ==
    \/ AnalyzeRoot
    \/ AnalyzeBadPath
    \/ RegisterOk
    \/ RegisterErr
    \/ LoadImportSkip
    \/ LoadImport
    \/ LoadImportUnresolved
    \/ LoadImportParseError
    \/ ProcessReturn

SpecSem == InitSem /\ [][NextSem]_vars

\* the analyzer is one synchronous call: it runs while it can
SpecSemLive == SpecSem /\ WF_vars(NextSem)

(***************************************************************************)
(* Claims about semantic analysis (checked under SpecSem / SpecSemLive).   *)
(***************************************************************************)
\* the map of the symbol table that holds a kind
MapOfKind(table, kind) ==
    CASE kind = "Type"     -> table.types
      [] kind = "Behavior" -> table.behaviors
      [] kind = "Function" -> table.functions
      [] kind = "Flow"     -> table.flows

\* the next step registers a declaration whose name its kind already holds
RegistersDuplicate ==
    /\ InProgram
    /\ CurDecl.kind \in Kinds
    /\ CurDecl.name \in DOMAIN MapOfKind(symbol_table, CurDecl.kind)

\* C11: registering a second declaration with the name of a registered
\* declaration of the same kind (type, behavior, function or flow) makes
\* analysis fail with a duplicate-declaration error and leaves the first
\* declaration in the table.
C11_DuplicateIsError ==
    [][RegistersDuplicate =>
          /\ sem_status' = "err"
          /\ sem_error' \in {DuplicateType(CurDecl.name),
                              DuplicateBehavior(CurDecl.name),
                              <<"DuplicateFunction", CurDecl.name>>,
                              <<"DuplicateFlow", CurDecl.name>>}
          /\ symbol_table' = symbol_table]_vars

\* the source files a file imports
ImportEdges(f) ==
    {t \in SourceFiles :
        \E i \in 1..Len(programs[f]) :
            /\ programs[f][i].kind = "Import"
            /\ canonicalize(JoinImport(f, programs[f][i].path)) = Some(t)}

ImportStep(S) == S \cup UNION {ImportEdges(f) : f \in S}

\* the files reachable from S through imports
RECURSIVE ImportClosure(_)
ImportClosure(S) ==
    IF ImportStep(S) = S THEN S ELSE ImportClosure(ImportStep(S))

SemDone == sem_status \in {"ok", "err"}

\* C12: analyze terminates on every import graph, cyclic ones included; no
\* source file is processed more than once, and a run that succeeds has
\* processed the root file and every file reachable from it exactly once,
\* whatever the number of import paths and spellings that lead to it.
C12_LoadsOnce ==
    /\ <>SemDone
    /\ [](\A f \in DOMAIN processed : processed[f] <= 1)
    /\ [](sem_status = "ok" =>
            \A f \in SourceFiles :
                processed[f] =
                    IF f \in ImportClosure({canonicalize(base_path)[1]})
                    THEN 1 ELSE 0)

C12_Witness ==
    /\ sem_status = "ok"
    /\ \A f \in SourceFiles : processed[f] = 1
    /\ base_path = <<"p", ".", "a.cm">>
    /\ programs[FileA][1].path = <<".", "b.cm">>
    /\ programs[FileA][3].path = <<"link.cm">>
    /\ programs[FileB][2].path = <<"a.cm">>
    /\ programs[FileC][1].path = <<"b.cm">>

(***************************************************************************)
(* Further claims about synthesis (checked under Spec).                    *)
(***************************************************************************)
\* the current statement evaluates an identifier that is no variable of ctx
\* and names a declared type
TypeUniverse(ctx) ==
    /\ CurStmt.expr.kind = "Identifier"
    /\ CurStmt.expr.name \notin DOMAIN ctx.variables
    /\ CurStmt.expr.name \in DOMAIN Types

\* C21: an identifier that is not a bound variable and names a declared
\* type evaluates to a single chain made of the type's own atom, its
\* declared properties and every property inherited transitively through
\* its parent constraint.
C21_UniverseChainInherits ==
    (JustEvaluated /\ TypeUniverse(InContext)) =>
        /\ Len(last_out) = 1
        /\ \E ch \in last_out[1].set :
              /\ last_out[1].set = {ch}
              /\ AtomsOf(ch) = GrantClosure({TypeAtom(CurStmt.expr.name)})

\* the arguments of the current call, read from ctx
SiteArgs(ctx) == VariableArgs(ctx, CurStmt.expr.args)

\* the current statement calls, on variables of ctx, a behavior no candidate
\* of which (function or variant) matched, while the table holds a function
\* of the same name whose parameters the arguments match
FallbackApplies(ctx) ==
    /\ BehaviorSite(ctx)
    /\ BehaviorBranches(CurStmt.expr.name, SiteArgs(ctx)) = 0
    /\ HasFunction(CurStmt.expr.name)
    /\ ParamsSubsume(FuncPool[CurStmt.expr.name].params, SiteArgs(ctx))

\* C23: when the called name is a behavior of which no candidate matched
\* and a function of the same name takes the arguments, the call emits a
\* single FunctionCall node for that function.
C23_FunctionFallback ==
    /\ (JustEvaluated /\ FallbackApplies(InContext)) =>
          /\ Len(last_out) = 1
          /\ OwnNode(last_out[1]).kind = "Operation"
          /\ OwnNode(last_out[1]).label = FunctionCall(CurStmt.expr.name)
    /\ JustFailed => ~FallbackApplies(CurContext)

\* the names of the atoms of c that stand under a Union
RECURSIVE UnderUnion(_, _)
UnderUnion(c, inUnion) ==
    CASE c.op = "Atom" -> IF inUnion THEN {c.name} ELSE {}
      [] c.op = "None" -> {}
      [] OTHER ->
            UNION {UnderUnion(c.cs[i], inUnion \/ c.op = "Union") :
                      i \in 1..Len(c.cs)}

\* the variants of a behavior, as the claim states them
ClaimedVariants(beh) ==
    {n \in UnderUnion(Behaviors[beh].return_type, FALSE) : n \notin DOMAIN Types}

\* the values of the Constant nodes the call site returned
ReturnedConstants ==
    {OwnNode(last_out[i]).label[1] : i \in
        {k \in 1..Len(last_out) : OwnNode(last_out[k]).kind = "Constant"}}

\* C24: a behavior call emits a Constant candidate for exactly the atoms
\* that stand under a Union of the behavior's return constraint and are no
\* declared type, valued with the atom's name; declared types and atoms
\* not under a Union yield none.
C24_VariantsUnderUnion ==
    (JustEvaluated /\ BehaviorSite(InContext) /\ BehaviorAccepts(InContext)) =>
        ReturnedConstants = ClaimedVariants(CurStmt.expr.name)

\* C25: a function whose expanded return set is empty is never emitted as
\* a candidate, neither by behavior dispatch nor by a direct call.
C25_NoEmptyReturnCandidate ==
    (JustEvaluated /\ IsCall) =>
        \A f \in ReturnedFunctions : expand(FuncPool[f].return_type) # {}

\* the current statement references a flow: a call without arguments of a
\* name that is no behavior and no function, or an identifier that is no
\* variable of ctx and no type
FlowReference(ctx) ==
    \/ /\ IsCall
       /\ CurStmt.expr.args = <<>>
       /\ CurStmt.expr.name \in DOMAIN Flows
       /\ CurStmt.expr.name \notin DOMAIN Behaviors
       /\ ~HasFunction(CurStmt.expr.name)
    \/ /\ CurStmt.expr.kind = "Identifier"
       /\ CurStmt.expr.name \in DOMAIN Flows
       /\ CurStmt.expr.name \notin DOMAIN ctx.variables
       /\ CurStmt.expr.name \notin DOMAIN Types

\* C26: a reference to a flow whose synthesis returns n contexts that bind
\* `result` yields n results, one FlowResult Source node per flow context,
\* each with the ConstraintSet of that context's `result`.
C26_FlowResultPerContext ==
    (JustEvaluated /\ FlowReference(InContext)) =>
        /\ Len(last_out) = Len(FlowResults(CurStmt.expr.name))
        /\ \A i \in 1..Len(last_out) :
              /\ OwnNode(last_out[i]).kind = "Source"
              /\ OwnNode(last_out[i]).label[1] = "FlowResult"
              /\ last_out[i].set =
                     FlowResults(CurStmt.expr.name)[i]
                         .variables["result"].constraint_set

\* a Return statement has been run on the context contexts[ctx_idx - 1]
JustReturned ==
    /\ status = "running"
    /\ stmt_idx <= Len(Body)
    /\ ctx_idx > 1
    /\ CurStmt.kind = "Return"

\* the results of the expression of the current statement under contexts[j]
ExprResults(j) == evaluate_expr(CurStmt.expr, contexts[j], MaxFlowDepth)

\* C27: Return(expr) evaluates expr under every live context and keeps the
\* context of every result, so that a branching expression multiplies the
\* contexts; a Return whose expression does not evaluate fails synthesize.
C27_ReturnEvaluates ==
    JustReturned =>
        /\ ExprResults(ctx_idx - 1).err = <<>>
        /\ Len(next_contexts) =
               Sum([j \in 1..(ctx_idx - 1) |-> Len(ExprResults(j).val)])
        /\ \A i \in 1..Len(ExprResults(ctx_idx - 1).val) :
              next_contexts[Len(next_contexts)
                            - Len(ExprResults(ctx_idx - 1).val) + i]
                  = ExprResults(ctx_idx - 1).val[i].ctx

IsPrefix(a, b) == Len(a) <= Len(b) /\ SubSeq(b, 1, Len(a)) = a

\* C28: evaluate_expr only appends and keeps the bindings: for every
\* result (ctx', set, id) of an evaluation in ctx, the nodes of ctx are a
\* prefix of the nodes of ctx', id is an index of the graph of ctx', and
\* the variables of ctx' are those of ctx.
C28_AppendOnly ==
    JustEvaluated =>
        \A i \in 1..Len(last_out) :
            /\ IsPrefix(InContext.graph, last_out[i].ctx.graph)
            /\ last_out[i].id \in 0..(Len(last_out[i].ctx.graph) - 1)
            /\ last_out[i].ctx.variables = InContext.variables

\* a behavior call on a bound variable that returned two results, each
\* with nodes of its own behind those of the context
C28_Witness ==
    /\ JustEvaluated /\ BehaviorSite(InContext)
    /\ InContext.graph # <<>>
    /\ DOMAIN InContext.variables # {}
    /\ Len(last_out) >= 2
    /\ \A i \in 1..Len(last_out) :
          Len(last_out[i].ctx.graph) > Len(InContext.graph)

\* the current statement calls a behavior on variables of ctx that all
\* hold the empty ConstraintSet
EmptyArgs(ctx) ==
    /\ BehaviorSite(ctx)
    /\ CurStmt.expr.args # <<>>
    /\ \A i \in 1..Len(SiteArgs(ctx)) : SiteArgs(ctx)[i].constraint_set = {}

\* the functions of the table of the arity of the call whose return is
\* inhabited and matches the return of the behavior
CandidatesOfArity ==
    {f \in TableFunctions :
        /\ Len(FuncPool[f].params) = Len(CurStmt.expr.args)
        /\ expand(FuncPool[f].return_type) # {}
        /\ ReturnSubsumes(f, Behaviors[CurStmt.expr.name].return_type)}

\* C30: an argument whose ConstraintSet is empty satisfies every parameter
\* constraint: a call on such arguments takes every function of matching
\* arity (with a matching return) as a candidate, whatever its parameters
\* require, and fails only when there is none.
C30_EmptyArgumentAccepted ==
    /\ (JustEvaluated /\ EmptyArgs(InContext)) =>
          ReturnedFunctions = CandidatesOfArity
    /\ (JustFailed /\ EmptyArgs(CurContext)) =>
          /\ error = NoImplFound(CurStmt.expr.name)
          /\ CandidatesOfArity = {}

\* the value of `e` was made by the direct call of void, whose return
\* expands to the empty set, and frame, which requires a DataFrame, took it
C30_Witness ==
    /\ JustEvaluated /\ EmptyArgs(InContext)
    /\ flow_name = "voidarg"
    /\ InContext.graph[InContext.variables["e"].node_id + 1].label
           = FunctionCall("void")
    /\ expand(FuncPool["void"].return_type) = {}
    /\ "frame" \in ReturnedFunctions

=============================================================================
